---- MODULE Spec2Model ----
(***************************************************************************)
(* The interview engine of src/scr: the judge-based turn state machine of  *)
(* src/scr/agents.py (ask / evaluate / router / review / report) driven by *)
(* the session manager of src/scr/app.py (one background task per session, *)
(* the UI handlers start_session and send_answer polling pending_prompts). *)
(*                                                                         *)
(* asyncio runs one coroutine at a time: an action is the code between two *)
(* suspension points.  graph.ainvoke runs the nodes on the graph's own     *)
(* copy of its input, which run_graph_in_background stores back into       *)
(* sess["state"] when the run ends (app.py:140-142): state is the copy the *)
(* nodes work on, SESSIONS[sid].state the dictionary the registry holds.   *)
(* Texts are sequences of one-character strings, an Optional value is a    *)
(* sequence of length 0 (None) or 1.                                       *)
(***************************************************************************)
EXTENDS Integers, Sequences, FiniteSets, TLC

\* ---------------------------------------------------------------- bounds

\* Number of questions in the job configuration (config["questions"]).
NumQuestions == 2

\* Largest configured number_of_followup_chances the model explores.
MaxChances == 2

\* Session ids (uuid4 values) and concurrent UI calls the model explores.
SessionIds == {"s1", "s2"}
Callers == {"c1", "c2"}

\* Answers a user may type.
AnswerTexts == {<<>>, <<"a", " ">>}

\* "follow_up" values of a judge response that parses: blank (no gap) or a
\* question (gap).
JudgeFollowUps == {<<" ">>, <<"f", " ">>}

\* str(e) of the exception a call of the chat model raises: an exception
\* raised without a message has the empty string.
CallFailures == {"", "unavailable"}

\* Ways the judge call of an evaluation fails, each named by str(e): the call
\* raises, the response is no JSON, the JSON has a follow_up that is no string.
JudgeFailures == CallFailures \cup {"malformed", "badshape"}

\* str(e) of the NameError node_reporter raises at pathlib.Path.
ReporterNameError == "pathlib"

\* str(e) of the NameError Interviewer() raises at init_chat_model.
InterviewerNameError == "init_chat_model"

\* str(e) of the EOFError input() raises when the console is closed.
ConsoleEOFError == "EOF when reading a line"

\* str(e) of the error graph.ainvoke raises when the run has taken as many
\* steps as the library allows without reaching END.
GraphRecursionError == "recursion_limit"

\* The number of steps (node executions) the library allows a run by default.
\* The 100 of run_graph_in_background is passed inside "configurable", so the
\* limit in force is the library's own: at least this default.
RecursionLimit == 25

\* What the installation may provide: the name init_chat_model in the module
\* of the Interviewer (the source binds it nowhere: without it Interviewer()
\* raises NameError), a compiled graph with an update_node method, and what
\* ask_node_wrapper finds to call: "callback", a callable of the ask node
\* that takes get_user_input; "plain", one that raises TypeError on that
\* keyword and is called again without it; "none", no callable at all.
\* Without update_node the wrapper is never installed.
Environments ==
    {e \in [init_chat_model : BOOLEAN, update_node : BOOLEAN,
            ask_call : {"callback", "plain", "none"}] :
        ~e.update_node => e.ask_call = "none"}

\* last_prompt as ask_node_wrapper sets it when it finds nothing to call.
FallbackPrompt ==
    <<"C", "o", "u", "l", "d", " ", "n", "o", "t", " ", "p", "r", "o", "d",
      "u", "c", "e", " ", "p", "r", "o", "m", "p", "t", " ", "(", "a", "s",
      "k", " ", "w", "r", "a", "p", "p", "e", "r", " ", "f", "a", "l", "l",
      "b", "a", "c", "k", ")">>

\* ------------------------------------------------------------- text helpers

None == <<>>
Some(x) == <<x>>

RECURSIVE lstrip(_)
lstrip(t) == IF t # <<>> /\ Head(t) = " " THEN lstrip(Tail(t)) ELSE t

RECURSIVE rstrip(_)
rstrip(t) ==
    IF t # <<>> /\ t[Len(t)] = " " THEN rstrip(SubSeq(t, 1, Len(t) - 1)) ELSE t

\* str.strip()
strip(t) == rstrip(lstrip(t))

\* if x: of an Optional string.
truthy(x) == x # None /\ x[1] # ""

Digit(i) == CASE i = 1 -> "1" [] i = 2 -> "2" [] i = 3 -> "3" [] OTHER -> "4"

\* config["questions"]: question i has id "q<i>" and text "Q<i>", and requires
\* the keywords "a" and "b" (which the judge is given in its prompt).
questions ==
    [i \in 1..NumQuestions |->
        [id |-> <<"q", Digit(i)>>, text |-> <<"Q", Digit(i)>>,
         required_keywords |-> << <<"a">>, <<"b">> >>, guidance |-> <<>>]]

\* ------------------------------------------- the keyword gap checker
\* find_missing_keywords of the keyword prototype (src/agents.py:36-47, the
\* same code in src/src/agents.py:29-43 and 168-178).

\* Longest answer and longest list of required keywords the model explores.
MaxAnswerLen == 3
MaxKeywords == 2

\* Characters of an answer, and the keywords a question may require.
AnswerChars == {"a", "b", "A", " ", "-", "_", "/"}
KeywordTexts == {<<"a">>, <<"A">>, <<"a", " ", "b">>, <<"a", "-", "b">>}
Answers == UNION {[1..n -> AnswerChars] : n \in 0..MaxAnswerLen}
KeywordLists == UNION {[1..n -> KeywordTexts] : n \in 0..MaxKeywords}

\* str.lower()
lower(t) == [i \in 1..Len(t) |-> CASE t[i] = "A" -> "a" [] t[i] = "B" -> "b" [] OTHER -> t[i]]

\* \w of the regular expression, and the class [\s\-/\\_] the pattern puts in
\* the place of an escaped space.
WordChars == {"a", "b", "A", "B", "_"}
SeparatorClass == {" ", "-", "/", "\\", "_"}

\* re.escape(kw).replace(r"\ ", r"[\s\-/\\_]+") between the two \b: every
\* character of kw stands for itself, a space for one or more of the class.
pattern(kw) == [i \in 1..Len(kw) |-> IF kw[i] = " " THEN "SEP+" ELSE kw[i]]

\* \b at position i of a (before a[i]; i = Len(a) + 1 is the end).
IsWord(a, i) == i >= 1 /\ i <= Len(a) /\ a[i] \in WordChars
WordBoundary(a, i) == IsWord(a, i - 1) # IsWord(a, i)

\* The pattern from element j on matches a from position i on, \b at the end.
RECURSIVE match(_, _, _, _)
match(pat, j, a, i) ==
    IF j > Len(pat) THEN WordBoundary(a, i)
    ELSE IF pat[j] = "SEP+"
         THEN \E n \in 1..(Len(a) - i + 1) :
                 /\ \A k \in i..(i + n - 1) : a[k] \in SeparatorClass
                 /\ match(pat, j + 1, a, i + n)
         ELSE /\ i <= Len(a)
              /\ a[i] = pat[j]
              /\ match(pat, j + 1, a, i + 1)

\* re.search(r"\b" + ... + r"\b", a)
search(pat, a) == \E i \in 1..(Len(a) + 1) : WordBoundary(a, i) /\ match(pat, 1, a, i)

\* The loop of find_missing_keywords from keyword i on, missing so far.
RECURSIVE missing_loop_prepends(_, _, _, _)
missing_loop_prepends(a, required_keywords, i, missing) ==
    IF i > Len(required_keywords) THEN missing
    ELSE missing_loop_prepends(a, required_keywords, i + 1,
            IF ~search(pattern(lower(required_keywords[i])), a)
            THEN <<required_keywords[i]>> \o missing
            ELSE missing)

RECURSIVE missing_loop(_, _, _, _)
missing_loop(a, required_keywords, i, missing) ==
    IF i > Len(required_keywords) THEN missing
    ELSE missing_loop(a, required_keywords, i + 1,
            IF ~search(pattern(lower(required_keywords[i])), a)
            THEN Append(missing, required_keywords[i])
            ELSE missing)

\* find_missing_keywords putting each missing keyword at the front.
find_missing_keywords_prepends(answer, required_keywords) ==
    IF required_keywords = <<>> THEN <<>>
    ELSE missing_loop_prepends(lower(answer), required_keywords, 1, <<>>)

\* find_missing_keywords
find_missing_keywords(answer, required_keywords) ==
    IF required_keywords = <<>> THEN <<>>
    ELSE missing_loop(lower(answer), required_keywords, 1, <<>>)

\* No call of the gap checker.
no_gap == [answer |-> <<>>, required_keywords |-> <<>>, missing |-> <<>>]

\* ------------------------------------------------- the keyword prototype
\* Two revisions of the ask / evaluate / router loop with the keyword gap
\* checker in the place of the judge, one follow-up per missing keyword and
\* no limit on follow-ups.  "class" is the Interviewer of src/src/agents.py,
\* whose ask node reads the answer at the console.  "functions" are the node
\* functions of src/agents.py: the ask node only chooses the prompt, the
\* evaluate node has no return for a missing answer (it evaluates None as the
\* empty answer), and the router ends the run when the questions are used
\* up, done or not.

\* Answers the model lets the user type before it stops answering.
MaxTurns == 4

\* What the user types.
ProtoAnswers == {<<>>, <<"a">>, <<"b">>, <<"a", "-", "b">>, <<"b", " ", "a">>}

\* config.questions of the prototype: a question requires the keywords "a"
\* and "b", or the phrase "a b".
proto_questions ==
    [i \in 1..NumQuestions |->
        [id |-> <<"q", Digit(i)>>,
         text |-> <<"Q", Digit(i)>>,
         required_keywords |->
             IF i % 2 = 1 THEN << <<"a">>, <<"b">> >> ELSE << <<"a", " ", "b">> >>,
         guidance |-> <<>>]]

\* f"You didn't mention "{m}". Could you add details regarding {m}?"
follow_up_text(m) == <<"?">> \o m

\* The state Interviewer.run starts the graph on.
proto_initial_state ==
    [ question_idx |-> 0,
      latest_answer |-> None,
      pending_followups |-> <<>>,
      last_prompt |-> None,
      answers |-> <<>>,
      done |-> FALSE ]

\* The follow-ups node_evaluate_answer appends for the missing keywords.
follow_ups_for(missing) == [j \in 1..Len(missing) |-> follow_up_text(missing[j])]

\* Whether node_evaluate_answer on s evaluates an answer.
proto_evaluates(s) ==
    /\ ~s.done
    /\ s.latest_answer # None
    /\ s.question_idx < NumQuestions

\* Interviewer.node_evaluate_answer
proto_node_evaluate_answer(s) ==
    IF s.done THEN s
    ELSE IF s.latest_answer = None THEN s
    ELSE IF s.question_idx >= NumQuestions THEN [s EXCEPT !.done = TRUE]
    ELSE
        LET latest == strip(s.latest_answer[1])
            q == proto_questions[s.question_idx + 1]
            missing == find_missing_keywords(latest, q.required_keywords)
            record == [question_id |-> q.id, question |-> q.text, answer |-> latest,
                       missing |-> missing, notes |-> q.guidance]
        IN  [s EXCEPT
                !.answers = Append(@, record),
                !.pending_followups =
                    IF missing # <<>> THEN @ \o follow_ups_for(missing) ELSE @,
                !.question_idx = IF missing # <<>> THEN @ ELSE @ + 1,
                !.latest_answer = None]

\* Interviewer.router
proto_router(s) == IF s.done THEN "end" ELSE "ask"

\* Interviewer.node_ask_question up to the input: the prompt it chooses (None
\* when it returns without asking) and the state it leaves.
\* proto_ask_prompt taking the newest follow-up instead of the oldest.
proto_ask_prompt_newest(s) ==
    IF s.done THEN None
    ELSE IF s.pending_followups # <<>>
         THEN Some(s.pending_followups[Len(s.pending_followups)])
    ELSE IF s.question_idx >= NumQuestions THEN None
    ELSE Some(proto_questions[s.question_idx + 1].text)

proto_ask_prompt(s) ==
    IF s.done THEN None
    ELSE IF s.pending_followups # <<>> THEN Some(Head(s.pending_followups))
    ELSE IF s.question_idx >= NumQuestions THEN None
    ELSE Some(proto_questions[s.question_idx + 1].text)

proto_ask_state(s) ==
    IF s.done THEN s
    ELSE IF s.pending_followups # <<>>
         THEN [s EXCEPT !.pending_followups = Tail(@)]
    ELSE IF s.question_idx >= NumQuestions
         THEN [s EXCEPT !.done = TRUE, !.last_prompt = None]
    ELSE s

\* node_evaluate_answer of src/agents.py
fn_node_evaluate_answer(s) ==
    IF s.done THEN s
    ELSE IF s.question_idx >= NumQuestions THEN [s EXCEPT !.done = TRUE]
    ELSE
        LET latest == strip(IF s.latest_answer = None THEN <<>> ELSE s.latest_answer[1])
            q == proto_questions[s.question_idx + 1]
            missing == find_missing_keywords(latest, q.required_keywords)
            record == [question_id |-> q.id, question |-> q.text, answer |-> latest,
                       missing |-> missing, notes |-> q.guidance]
        IN  [s EXCEPT
                !.answers = Append(@, record),
                !.pending_followups =
                    IF missing # <<>> THEN @ \o follow_ups_for(missing) ELSE @,
                !.question_idx = IF missing # <<>> THEN @ ELSE @ + 1,
                !.latest_answer = None]

\* router of src/agents.py
fn_router(s) ==
    IF s.done THEN "end"
    ELSE IF s.pending_followups # <<>> THEN "ask"
    ELSE IF s.question_idx < NumQuestions THEN "ask"
    ELSE "end"

\* node_ask_question of src/agents.py: the prompt is left in last_prompt.
fn_node_ask_question(s) ==
    IF s.done THEN s
    ELSE IF s.pending_followups # <<>>
         THEN [s EXCEPT !.pending_followups = Tail(@),
                        !.last_prompt = Some(Head(s.pending_followups))]
    ELSE IF s.question_idx >= NumQuestions
         THEN [s EXCEPT !.done = TRUE, !.last_prompt = None]
    ELSE [s EXCEPT !.last_prompt = Some(proto_questions[s.question_idx + 1].text)]

\* The prompt node_ask_question of src/agents.py hands to the UI (None when
\* it returns without one).
fn_ask_prompt(s) ==
    IF s.done \/ (s.pending_followups = <<>> /\ s.question_idx >= NumQuestions)
    THEN None
    ELSE fn_node_ask_question(s).last_prompt

\* No run of the prototype.  rev is the revision that runs.  origin and shown
\* are history, read by no step:
\* for each follow-up in the queue the question_idx it was generated at, and
\* the prompts shown so far, each with the question_idx it was shown at, the
\* question_idx its follow-up was generated at (-1 for a main question) and
\* the number of answers recorded before it.
no_proto ==
    [rev |-> "class", pc |-> "off", state |-> proto_initial_state, prompt |-> None,
     origin |-> <<>>, shown |-> <<>>]

\* ------------------------------------------------------------------ state

VARIABLES
    config,     \* the module-level JobConfig: [no_followup_chances]
    env,        \* what the installation provides:
                \* [init_chat_model, update_node, ask_call]
    SESSIONS,   \* session id -> the session object of create_session
    state,      \* session id -> the AgentState the graph of the session runs on
    task,       \* session id -> the background task: [pc, prompt, steps]
    call,       \* caller -> the UI call it is in: [op, pc, sid, result, k, got]
    turns,      \* session id -> history counters: [emitted, delivered, asked]
    gap,        \* a call of the keyword gap checker of the prototype (src/agents.py):
                \* [answer, required_keywords, missing]
    proto       \* a run of the keyword prototype (src/src/agents.py):
                \* [pc, state, prompt, origin, shown]

vars == <<config, env, SESSIONS, state, task, call, turns, gap, proto>>

\* initial_state_from_config
initial_state_from_config ==
    [ q_idx |-> 0,
      latest_answer |-> None,
      pending_followups |-> <<>>,
      last_prompt |-> None,
      answers |-> <<>>,
      llm_responses |-> <<>>,
      done |-> FALSE ]

\* The session object create_session stores in SESSIONS.  current_future is
\* None or the future the ask node awaits: [done, result].
new_session ==
    [ state |-> initial_state_from_config,
      pending_prompts |-> <<>>,
      current_future |-> None,
      done |-> FALSE,
      last_error |-> None ]

\* ------------------------------------------------- the turn state machine

\* The tracker node_evaluate_answer appends for a question it sees first.
new_tracker(q_idx) == [q_idx |-> q_idx, follow_up_count |-> 0, history |-> <<>>]

\* llm_responses after "initialize response tracker for this question if needed".
tracked(s, q_idx) ==
    IF Len(s.llm_responses) <= q_idx
    THEN Append(s.llm_responses, new_tracker(q_idx))
    ELSE s.llm_responses

\* The record "SAVE USER ANSWER" appends.
answer_record(q, latest) ==
    [question_id |-> q.id, question |-> q.text, answer |-> latest, notes |-> q.guidance]

\* follow_up_logic with the limit compared by <= : one follow-up too many.
follow_up_logic_inclusive(s, tr, q_idx, follow_up, chances) ==
    LET q_track == tr[q_idx + 1] IN
    IF follow_up # <<>>
    THEN IF q_track.follow_up_count <= chances
         THEN [s EXCEPT
                 !.llm_responses =
                     [tr EXCEPT ![q_idx + 1].follow_up_count = q_track.follow_up_count + 1],
                 !.pending_followups = Append(s.pending_followups, follow_up)]
         ELSE [s EXCEPT
                 !.llm_responses = tr,
                 !.pending_followups = <<>>,
                 !.q_idx = q_idx + 1]
    ELSE [s EXCEPT !.llm_responses = tr, !.q_idx = q_idx + 1]

\* follow_up_logic with the limit reached one follow-up early.
follow_up_logic_one_short(s, tr, q_idx, follow_up, chances) ==
    LET q_track == tr[q_idx + 1] IN
    IF follow_up # <<>>
    THEN IF q_track.follow_up_count + 1 < chances
         THEN [s EXCEPT
                 !.llm_responses =
                     [tr EXCEPT ![q_idx + 1].follow_up_count = q_track.follow_up_count + 1],
                 !.pending_followups = Append(s.pending_followups, follow_up)]
         ELSE [s EXCEPT
                 !.llm_responses = tr,
                 !.pending_followups = <<>>,
                 !.q_idx = q_idx + 1]
    ELSE [s EXCEPT !.llm_responses = tr, !.q_idx = q_idx + 1]

\* follow_up_logic going back to the first question when the chances are used up.
follow_up_logic_restart(s, tr, q_idx, follow_up, chances) ==
    LET q_track == tr[q_idx + 1] IN
    IF follow_up # <<>>
    THEN IF q_track.follow_up_count < chances
         THEN [s EXCEPT
                 !.llm_responses =
                     [tr EXCEPT ![q_idx + 1].follow_up_count = q_track.follow_up_count + 1],
                 !.pending_followups = Append(s.pending_followups, follow_up)]
         ELSE [s EXCEPT
                 !.llm_responses = tr,
                 !.pending_followups = <<>>,
                 !.q_idx = 0]
    ELSE [s EXCEPT !.llm_responses = tr, !.q_idx = q_idx + 1]

\* follow_up_logic that still enqueues the follow-up when the chances are used up.
follow_up_logic_keeps_queue(s, tr, q_idx, follow_up, chances) ==
    LET q_track == tr[q_idx + 1] IN
    IF follow_up # <<>>
    THEN IF q_track.follow_up_count < chances
         THEN [s EXCEPT
                 !.llm_responses =
                     [tr EXCEPT ![q_idx + 1].follow_up_count = q_track.follow_up_count + 1],
                 !.pending_followups = Append(s.pending_followups, follow_up)]
         ELSE [s EXCEPT
                 !.llm_responses = tr,
                 !.pending_followups = Append(s.pending_followups, follow_up),
                 !.q_idx = q_idx + 1]
    ELSE [s EXCEPT !.llm_responses = tr, !.q_idx = q_idx + 1]

\* FOLLOW-UP LOGIC WITH LIMIT: the state after the branch on follow_up, given
\* the trackers tr (history already appended).
\* follow_up_logic skipping a question when the chances are used up.
follow_up_logic_skips(s, tr, q_idx, follow_up, chances) ==
    LET q_track == tr[q_idx + 1] IN
    IF follow_up # <<>>
    THEN IF q_track.follow_up_count < chances
         THEN [s EXCEPT
                 !.llm_responses =
                     [tr EXCEPT ![q_idx + 1].follow_up_count = q_track.follow_up_count + 1],
                 !.pending_followups = Append(s.pending_followups, follow_up)]
         ELSE [s EXCEPT
                 !.llm_responses = tr,
                 !.pending_followups = <<>>,
                 !.q_idx = q_idx + 2]
    ELSE [s EXCEPT !.llm_responses = tr, !.q_idx = q_idx + 1]

\* follow_up_logic queueing the follow-up twice.
follow_up_logic_doubled(s, tr, q_idx, follow_up, chances) ==
    LET q_track == tr[q_idx + 1] IN
    IF follow_up # <<>>
    THEN IF q_track.follow_up_count < chances
         THEN [s EXCEPT
                 !.llm_responses =
                     [tr EXCEPT ![q_idx + 1].follow_up_count = q_track.follow_up_count + 1],
                 !.pending_followups = s.pending_followups \o <<follow_up, follow_up>>]
         ELSE [s EXCEPT
                 !.llm_responses = tr,
                 !.pending_followups = <<>>,
                 !.q_idx = q_idx + 1]
    ELSE [s EXCEPT !.llm_responses = tr, !.q_idx = q_idx + 1]

follow_up_logic(s, tr, q_idx, follow_up, chances) ==
    LET q_track == tr[q_idx + 1] IN
    IF follow_up # <<>>
    THEN IF q_track.follow_up_count < chances
         THEN [s EXCEPT
                 !.llm_responses =
                     [tr EXCEPT ![q_idx + 1].follow_up_count = q_track.follow_up_count + 1],
                 !.pending_followups = Append(s.pending_followups, follow_up)]
         ELSE [s EXCEPT
                 !.llm_responses = tr,
                 !.pending_followups = <<>>,
                 !.q_idx = q_idx + 1]
    ELSE [s EXCEPT !.llm_responses = tr, !.q_idx = q_idx + 1]

\* Whether node_evaluate_answer on s calls the judge (none of its three early
\* returns is taken).
evaluates(s) ==
    /\ ~s.done
    /\ s.latest_answer # None
    /\ s.q_idx < NumQuestions

\* node_evaluate_answer clearing done instead of returning at once.
node_evaluate_answer_reopens(s, raw, chances) ==
    IF s.done THEN [s EXCEPT !.done = FALSE]
    ELSE IF s.latest_answer = None THEN s
    ELSE IF s.q_idx >= NumQuestions THEN [s EXCEPT !.done = TRUE]
    ELSE
        LET q_idx == s.q_idx
            latest == strip(s.latest_answer[1])
            q == questions[q_idx + 1]
            tr0 == tracked(s, q_idx)
            tr == [tr0 EXCEPT ![q_idx + 1].history = Append(@, raw)]
            follow_up == strip(raw)
            s1 == follow_up_logic(s, tr, q_idx, follow_up, chances)
        IN  [s1 EXCEPT !.answers = Append(s.answers, answer_record(q, latest))]

\* node_evaluate_answer taking an empty answer for no answer yet.
node_evaluate_answer_skips_empty(s, raw, chances) ==
    IF s.done THEN s
    ELSE IF s.latest_answer = None \/ s.latest_answer = Some(<<>>) THEN s
    ELSE IF s.q_idx >= NumQuestions THEN [s EXCEPT !.done = TRUE]
    ELSE
        LET q_idx == s.q_idx
            latest == strip(s.latest_answer[1])
            q == questions[q_idx + 1]
            tr0 == tracked(s, q_idx)
            tr == [tr0 EXCEPT ![q_idx + 1].history = Append(@, raw)]
            follow_up == strip(raw)
            s1 == follow_up_logic(s, tr, q_idx, follow_up, chances)
        IN  [s1 EXCEPT !.answers = Append(s.answers, answer_record(q, latest))]

\* node_evaluate_answer when the judge answers with a response whose
\* "follow_up" is the string raw.
node_evaluate_answer(s, raw, chances) ==
    IF s.done THEN s
    ELSE IF s.latest_answer = None THEN s
    ELSE IF s.q_idx >= NumQuestions THEN [s EXCEPT !.done = TRUE]
    ELSE
        LET q_idx == s.q_idx
            latest == strip(s.latest_answer[1])
            q == questions[q_idx + 1]
            tr0 == tracked(s, q_idx)
            tr == [tr0 EXCEPT ![q_idx + 1].history = Append(@, raw)]
            follow_up == strip(raw)
            s1 == follow_up_logic(s, tr, q_idx, follow_up, chances)
        IN  [s1 EXCEPT !.answers = Append(s.answers, answer_record(q, latest))]

\* router
router(s) == IF s.done THEN "review" ELSE "ask"

\* node_ask_question up to the call of get_user_input: the prompt it chooses
\* (None when it returns without asking) and the state it leaves.
\* ask_prompt choosing the current question before a pending follow-up.
ask_prompt_question_first(s) ==
    IF s.done THEN None
    ELSE IF s.q_idx < NumQuestions THEN Some(questions[s.q_idx + 1].text)
    ELSE IF s.pending_followups # <<>> THEN Some(Head(s.pending_followups))
    ELSE None

ask_prompt(s) ==
    IF s.done THEN None
    ELSE IF s.pending_followups # <<>> THEN Some(Head(s.pending_followups))
    ELSE IF s.q_idx >= NumQuestions THEN None
    ELSE Some(questions[s.q_idx + 1].text)

\* ask_state leaving the follow-up it asks in the queue.
ask_state_keeps_follow_up(s) ==
    IF s.done THEN s
    ELSE IF s.pending_followups # <<>> THEN s
    ELSE IF s.q_idx >= NumQuestions THEN [s EXCEPT !.done = TRUE]
    ELSE s

\* ask_state without done set when the questions are used up.
ask_state_without_done(s) ==
    IF s.done THEN s
    ELSE IF s.pending_followups # <<>>
         THEN [s EXCEPT !.pending_followups = Tail(s.pending_followups)]
    ELSE s

ask_state(s) ==
    IF s.done THEN s
    ELSE IF s.pending_followups # <<>>
         THEN [s EXCEPT !.pending_followups = Tail(s.pending_followups)]
    ELSE IF s.q_idx >= NumQuestions THEN [s EXCEPT !.done = TRUE]
    ELSE s

\* ------------------------------------------------------------------- Init

\* A UI call: op is "start" or "send", pc "idle" once it has returned.  k and
\* got are history: the number of the answer the call delivered and the number
\* of the prompt it returned (0: none).
idle == [op |-> "none", pc |-> "idle", sid |-> None, result |-> None, k |-> 0, got |-> 0]

Init ==
    /\ config \in [no_followup_chances : 0..MaxChances]
    /\ env \in Environments
    /\ SESSIONS = << >>
    /\ state = << >>
    /\ task = << >>
    /\ turns = << >>
    /\ call = [c \in Callers |-> idle]
    /\ gap = no_gap
    /\ proto = no_proto

Live == DOMAIN SESSIONS

\* ------------------------------------------------------ the background task
\* task[sid].pc: "evaluate", "ask", "wait" (suspended in get_user_input),
\* "console" (reading a line), "review", "report", "ended".
\* task[sid].steps: the nodes the run has entered, counted up to
\* RecursionLimit.

\* The step counter after one more node.
stepped(n) == IF n < RecursionLimit THEN n + 1 ELSE n

\* How the ask node of a run gets its answer: "wait", node_ask_question
\* called with get_user_input; "console", node_ask_question called without
\* it (the node as built, or the wrapper's second call after TypeError);
\* "fallback", the wrapper has nothing to call.
ask_mode ==
    IF ~env.update_node THEN "console"
    ELSE IF env.ask_call = "callback" THEN "wait"
    ELSE IF env.ask_call = "plain" THEN "console"
    ELSE "fallback"

\* The session object after run_graph_in_background's except and finally
\* blocks, the run having raised e.
run_failed(sess, e) ==
    [sess EXCEPT
        !.last_error = Some(e),
        !.done = TRUE,
        !.current_future =
            IF @ # None /\ ~@[1].done
            THEN Some([done |-> TRUE, result |-> None])
            ELSE @]

\* The session object after the lines that follow graph.ainvoke, and the
\* finally block.
run_finished(sess, final_state) ==
    [sess EXCEPT
        !.done = TRUE,
        !.state = final_state,
        !.current_future =
            IF @ # None /\ ~@[1].done
            THEN Some([done |-> TRUE, result |-> Some(<<>>)])
            ELSE @]

\* The evaluate node, then the router: the judge answers with any follow_up
\* (or is not called).
Evaluate(sid) ==
    /\ sid \in Live
    /\ task[sid].pc = "evaluate"
    /\ \E raw \in (IF evaluates(state[sid]) THEN JudgeFollowUps ELSE {<<>>}) :
          LET s1 == node_evaluate_answer(state[sid], raw, config.no_followup_chances) IN
          /\ state' = [state EXCEPT ![sid] = s1]
          /\ task' = [task EXCEPT ![sid].pc = router(s1), ![sid].steps = stepped(@)]
    /\ UNCHANGED <<config, env, gap, proto, SESSIONS, call, turns>>

\* The evaluate node raises: the judge call fails or its response is no JSON
\* (nothing is stored yet), or "follow_up" is no string (the tracker holds the
\* response already).
EvaluateFails(sid) ==
    /\ sid \in Live
    /\ task[sid].pc = "evaluate"
    /\ evaluates(state[sid])
    /\ \E e \in JudgeFailures :
          /\ state' = [state EXCEPT ![sid].llm_responses =
                          IF e = "badshape"
                          THEN [tracked(state[sid], state[sid].q_idx)
                                   EXCEPT ![state[sid].q_idx + 1].history = Append(@, <<>>)]
                          ELSE @]
          /\ SESSIONS' = [SESSIONS EXCEPT ![sid] = run_failed(@, e)]
    /\ task' = [task EXCEPT ![sid].pc = "ended", ![sid].steps = stepped(@)]
    /\ UNCHANGED <<config, env, gap, proto, call, turns>>

\* get_user_input up to "await fut": the prompt is pushed, the future created.
get_user_input(sess, prompt) ==
    [sess EXCEPT
        !.pending_prompts = Append(@, prompt),
        !.current_future = Some([done |-> FALSE, result |-> None])]

\* Ask with pending_prompts one list shared by the sessions.
Ask_shared_prompts(sid) ==
    /\ sid \in Live
    /\ task[sid].pc = "ask"
    /\ IF ask_mode = "fallback"
       THEN /\ state' = [state EXCEPT ![sid].last_prompt = Some(FallbackPrompt)]
            /\ task' = [task EXCEPT ![sid].pc = "evaluate", ![sid].steps = stepped(@)]
            /\ UNCHANGED <<SESSIONS, turns>>
       ELSE
       LET p == ask_prompt(state[sid]) IN
       /\ state' = [state EXCEPT ![sid] = ask_state(state[sid])]
       /\ IF p = None
          THEN /\ task' = [task EXCEPT ![sid].pc = "evaluate", ![sid].steps = stepped(@)]
               /\ UNCHANGED <<SESSIONS, turns>>
          ELSE IF ask_mode = "wait"
          THEN /\ task' = [task EXCEPT ![sid].pc = "wait", ![sid].prompt = p,
                                       ![sid].steps = stepped(@)]
               /\ SESSIONS' = [x \in Live |->
                     IF x = sid THEN get_user_input(SESSIONS[x], p[1])
                     ELSE [SESSIONS[x] EXCEPT !.pending_prompts = Append(@, p[1])]]
               /\ turns' = [turns EXCEPT
                     ![sid].emitted = @ + 1,
                     ![sid].asked[state[sid].q_idx + 1] = @ + 1]
          ELSE /\ task' = [task EXCEPT ![sid].pc = "console", ![sid].prompt = p,
                                       ![sid].steps = stepped(@)]
               /\ turns' = [turns EXCEPT ![sid].asked[state[sid].q_idx + 1] = @ + 1]
               /\ UNCHANGED SESSIONS
    /\ UNCHANGED <<config, env, gap, proto, call>>

\* The ask node up to its await.  When ask_node_wrapper has nothing to call
\* it sets last_prompt and returns: nothing is popped, pushed or awaited.
\* Otherwise node_ask_question runs; without a prompt it returns at once.
\* Called with get_user_input it goes up to "await fut"; called without
\* it the node waits for a line typed at the console: no prompt is pushed
\* and no future created.
Ask(sid) ==
    /\ sid \in Live
    /\ task[sid].pc = "ask"
    /\ IF ask_mode = "fallback"
       THEN /\ state' = [state EXCEPT ![sid].last_prompt = Some(FallbackPrompt)]
            /\ task' = [task EXCEPT ![sid].pc = "evaluate", ![sid].steps = stepped(@)]
            /\ UNCHANGED <<SESSIONS, turns>>
       ELSE
       LET p == ask_prompt(state[sid]) IN
       /\ state' = [state EXCEPT ![sid] = ask_state(state[sid])]
       /\ IF p = None
          THEN /\ task' = [task EXCEPT ![sid].pc = "evaluate", ![sid].steps = stepped(@)]
               /\ UNCHANGED <<SESSIONS, turns>>
          ELSE IF ask_mode = "wait"
          THEN /\ task' = [task EXCEPT ![sid].pc = "wait", ![sid].prompt = p,
                                       ![sid].steps = stepped(@)]
               /\ SESSIONS' = [SESSIONS EXCEPT ![sid] = get_user_input(@, p[1])]
               /\ turns' = [turns EXCEPT
                     ![sid].emitted = @ + 1,
                     ![sid].asked[state[sid].q_idx + 1] = @ + 1]
          ELSE /\ task' = [task EXCEPT ![sid].pc = "console", ![sid].prompt = p,
                                       ![sid].steps = stepped(@)]
               /\ turns' = [turns EXCEPT ![sid].asked[state[sid].q_idx + 1] = @ + 1]
               /\ UNCHANGED SESSIONS
    /\ UNCHANGED <<config, env, gap, proto, call>>

\* A line is typed at the console: input("> ") returns it and the ask node
\* stores the answer and the prompt.
ConsoleInput(sid, text) ==
    /\ sid \in Live
    /\ task[sid].pc = "console"
    /\ state' = [state EXCEPT
          ![sid].latest_answer = Some(text),
          ![sid].last_prompt = task[sid].prompt]
    /\ task' = [task EXCEPT ![sid].pc = "evaluate", ![sid].prompt = None]
    /\ UNCHANGED <<config, env, gap, proto, SESSIONS, call, turns>>

\* The console is closed: input("> ") raises EOFError, which leaves the ask
\* node and graph.ainvoke, and the run ends in the except block.
ConsoleEOF(sid) ==
    /\ sid \in Live
    /\ task[sid].pc = "console"
    /\ SESSIONS' = [SESSIONS EXCEPT ![sid] = run_failed(@, ConsoleEOFError)]
    /\ task' = [task EXCEPT ![sid].pc = "ended", ![sid].prompt = None]
    /\ UNCHANGED <<config, env, gap, proto, state, call, turns>>

\* The run has taken the steps the library allows and another node is due:
\* graph.ainvoke raises, and the run ends in the except block.
RecursionLimitReached(sid) ==
    /\ sid \in Live
    /\ task[sid].pc \in {"evaluate", "ask", "review", "report"}
    /\ task[sid].steps >= RecursionLimit
    /\ SESSIONS' = [SESSIONS EXCEPT ![sid] = run_failed(@, GraphRecursionError)]
    /\ task' = [task EXCEPT ![sid].pc = "ended"]
    /\ UNCHANGED <<config, env, gap, proto, state, call, turns>>

\* Resume with get_user_input leaving current_future set (no finally).
Resume_keeps_future(sid) ==
    /\ sid \in Live
    /\ task[sid].pc = "wait"
    /\ SESSIONS[sid].current_future # None
    /\ SESSIONS[sid].current_future[1].done
    /\ state' = [state EXCEPT
          ![sid].latest_answer = SESSIONS[sid].current_future[1].result,
          ![sid].last_prompt = task[sid].prompt]
    /\ task' = [task EXCEPT ![sid].pc = "evaluate", ![sid].prompt = None]
    /\ UNCHANGED <<config, env, gap, proto, SESSIONS, call, turns>>

\* The future is resolved: get_user_input returns (its finally clears
\* current_future) and the ask node stores the answer and the prompt.
Resume(sid) ==
    /\ sid \in Live
    /\ task[sid].pc = "wait"
    /\ SESSIONS[sid].current_future # None
    /\ SESSIONS[sid].current_future[1].done
    /\ state' = [state EXCEPT
          ![sid].latest_answer = SESSIONS[sid].current_future[1].result,
          ![sid].last_prompt = task[sid].prompt]
    /\ SESSIONS' = [SESSIONS EXCEPT ![sid].current_future = None]
    /\ task' = [task EXCEPT ![sid].pc = "evaluate", ![sid].prompt = None]
    /\ UNCHANGED <<config, env, gap, proto, call, turns>>

\* Review dropping the last record of answers when it succeeds.
Review_trims_answers(sid) ==
    /\ sid \in Live
    /\ task[sid].pc = "review"
    /\ \/ /\ task' = [task EXCEPT ![sid].pc = "report", ![sid].steps = stepped(@)]
          /\ state' = [state EXCEPT ![sid].answers =
                          IF @ = <<>> THEN @ ELSE SubSeq(@, 1, Len(@) - 1)]
          /\ UNCHANGED SESSIONS
       \/ /\ task' = [task EXCEPT ![sid].pc = "ended", ![sid].steps = stepped(@)]
          /\ \E e \in CallFailures :
                SESSIONS' = [SESSIONS EXCEPT ![sid] = run_failed(@, e)]
          /\ UNCHANGED state
    /\ UNCHANGED <<config, env, gap, proto, call, turns>>

\* node_reviewer: one judge call over state["answers"]; it may raise.
Review(sid) ==
    /\ sid \in Live
    /\ task[sid].pc = "review"
    /\ \/ /\ task' = [task EXCEPT ![sid].pc = "report", ![sid].steps = stepped(@)]
          /\ UNCHANGED SESSIONS
       \/ /\ task' = [task EXCEPT ![sid].pc = "ended", ![sid].steps = stepped(@)]
          /\ \E e \in CallFailures :
                SESSIONS' = [SESSIONS EXCEPT ![sid] = run_failed(@, e)]
    /\ UNCHANGED <<config, env, gap, proto, state, call, turns>>

\* The report node.  With update_node create_session has replaced it by
\* _dummy_report: END follows, and the lines after graph.ainvoke.  Without
\* it the node is node_reporter: its call of the chat model raises, or
\* pathlib.Path raises NameError, and the run ends in the except block.
Report(sid) ==
    /\ sid \in Live
    /\ task[sid].pc = "report"
    /\ task' = [task EXCEPT ![sid].pc = "ended", ![sid].steps = stepped(@)]
    /\ IF env.update_node
       THEN SESSIONS' = [SESSIONS EXCEPT ![sid] = run_finished(@, state[sid])]
       ELSE \E e \in CallFailures \cup {ReporterNameError} :
               SESSIONS' = [SESSIONS EXCEPT ![sid] = run_failed(@, e)]
    /\ UNCHANGED <<config, env, gap, proto, state, call, turns>>

\* ------------------------------------------------------------ the UI calls

\* What a UI call returns: the text (a prompt, or the error the message
\* quotes; the fixed messages carry none) and the done flag.
prompt_result(p) == [kind |-> "prompt", text |-> p, done |-> FALSE]
error_result(e) == [kind |-> "error", text |-> <<e>>, done |-> TRUE]
complete_result == [kind |-> "complete", text |-> <<>>, done |-> TRUE]
not_found_result == [kind |-> "not_found", text |-> <<>>, done |-> TRUE]
waiting_result == [kind |-> "waiting", text |-> <<>>, done |-> FALSE]

\* The call raises e instead of returning (no done flag is returned).
raised_result(e) == [kind |-> "raised", text |-> <<e>>, done |-> FALSE]

\* One pass of start_session's polling loop on session object sess: the
\* result it returns, or None when it sleeps.
start_poll(sess) ==
    IF sess.pending_prompts # <<>> THEN Some(prompt_result(Head(sess.pending_prompts)))
    ELSE IF truthy(sess.last_error) THEN Some(error_result(sess.last_error[1]))
    ELSE None

\* One pass of send_answer's polling loop.
send_poll(sess) ==
    IF sess.pending_prompts # <<>> THEN Some(prompt_result(Head(sess.pending_prompts)))
    ELSE IF sess.done THEN Some(complete_result)
    ELSE IF truthy(sess.last_error) THEN Some(error_result(sess.last_error[1]))
    ELSE None

\* polled leaving the prompt it returns in the list.
polled_keeps_prompt(sess, r) == sess

\* The session object after a pass that returned r.
polled(sess, r) ==
    IF r # None /\ r[1].kind = "prompt"
    THEN [sess EXCEPT !.pending_prompts = Tail(@)]
    ELSE sess

\* The number of the prompt at the head of pending_prompts (prompts are
\* pushed and popped in order), 0 when r is no prompt.
head_no(sid, r) ==
    IF r # None /\ r[1].kind = "prompt"
    THEN turns[sid].emitted - Len(SESSIONS[sid].pending_prompts) + 1
    ELSE 0

\* History of a session, read by no step: the prompts pushed (emitted), the
\* answers given to a future (delivered), the prompts pushed while each
\* question was the current one (asked).
no_turns == [emitted |-> 0, delivered |-> 0, asked |-> [i \in 1..NumQuestions |-> 0]]

\* create_session, build_graph having returned a graph.
create_session(sid) ==
    /\ SESSIONS' = (sid :> new_session) @@ SESSIONS
    /\ turns' = (sid :> no_turns) @@ turns

\* create_session when Interviewer() raises in build_graph: the NameError
\* leaves before SESSIONS[session_id] is assigned.
create_session_raises == UNCHANGED <<SESSIONS, turns>>

\* start_session up to its first sleep: create_session, create_task, and the
\* first pass of the loop (nothing is pending yet, so it sleeps and the new
\* task starts the graph on its input); or create_session raises, and
\* start_session with it, before a task is created.
start_session(c, sid) ==
    /\ call[c].pc = "idle"
    /\ sid \notin Live
    /\ IF env.init_chat_model
       THEN /\ create_session(sid)
            /\ state' = (sid :> new_session.state) @@ state
            /\ task' = (sid :> [pc |-> "evaluate", prompt |-> None, steps |-> 0]) @@ task
            /\ call' = [call EXCEPT ![c] =
                  [op |-> "start", pc |-> "start_poll", sid |-> Some(sid),
                   result |-> None, k |-> 0, got |-> 0]]
       ELSE /\ create_session_raises
            /\ call' = [call EXCEPT ![c] =
                  [op |-> "start", pc |-> "idle", sid |-> None,
                   result |-> Some(raised_result(InterviewerNameError)),
                   k |-> 0, got |-> 0]]
            /\ UNCHANGED <<state, task>>
    /\ UNCHANGED <<config, env, gap, proto>>

\* A later pass of start_session's loop.
StartPoll(c) ==
    /\ call[c].pc = "start_poll"
    /\ LET sid == call[c].sid[1]
           r == start_poll(SESSIONS[sid]) IN
       /\ r # None
       /\ SESSIONS' = [SESSIONS EXCEPT ![sid] = polled(@, r)]
       /\ call' = [call EXCEPT ![c].pc = "idle", ![c].result = r,
                               ![c].got = head_no(sid, r)]
    /\ UNCHANGED <<config, env, gap, proto, state, task, turns>>

\* The 60 passes are used up: after its last sleep the call returns "No prompt
\* yet" without looking at the session again.
StartTimeout(c) ==
    /\ call[c].pc = "start_poll"
    /\ call' = [call EXCEPT ![c].pc = "idle", ![c].result = Some(waiting_result)]
    /\ UNCHANGED <<config, env, gap, proto, SESSIONS, state, task, turns>>

\* Whether send_answer finds a future it can resolve.
awaited(sess) == sess.current_future # None /\ ~sess.current_future[1].done

\* deliver giving the answer to a future that is resolved already.
deliver_overwrites(sess, text) ==
    IF sess.current_future = None
    THEN [sess EXCEPT !.state.latest_answer = Some(text)]
    ELSE [sess EXCEPT !.current_future = Some([done |-> TRUE, result |-> Some(text)])]

\* The session object after send_answer's delivery step: without a future the
\* answer is stored in sess["state"], an unresolved future gets it as result.
deliver(sess, text) ==
    IF sess.current_future = None
    THEN [sess EXCEPT !.state.latest_answer = Some(text)]
    ELSE IF ~sess.current_future[1].done
         THEN [sess EXCEPT !.current_future = Some([done |-> TRUE, result |-> Some(text)])]
         ELSE sess

\* send_answer registering a session for an id it does not know.
send_answer_registers(c, sid, text) ==
    /\ call[c].pc = "idle"
    /\ IF sid \notin Live
       THEN /\ call' = [call EXCEPT ![c] =
                  [op |-> "send", pc |-> "idle", sid |-> Some(sid),
                   result |-> Some(not_found_result), k |-> 0, got |-> 0]]
            /\ SESSIONS' = (sid :> new_session) @@ SESSIONS
            /\ UNCHANGED turns
       ELSE IF truthy(SESSIONS[sid].last_error)
       THEN /\ call' = [call EXCEPT ![c] =
                  [op |-> "send", pc |-> "idle", sid |-> Some(sid),
                   result |-> Some(error_result(SESSIONS[sid].last_error[1])),
                   k |-> 0, got |-> 0]]
            /\ UNCHANGED <<SESSIONS, turns>>
       ELSE LET sess == deliver(SESSIONS[sid], text)
                r == send_poll(sess)
                n == IF awaited(SESSIONS[sid]) THEN turns[sid].delivered + 1 ELSE 0 IN
            /\ SESSIONS' = [SESSIONS EXCEPT ![sid] = polled(sess, r)]
            /\ turns' = [turns EXCEPT ![sid].delivered =
                            IF awaited(SESSIONS[sid]) THEN @ + 1 ELSE @]
            /\ call' = [call EXCEPT ![c] =
                  [op |-> "send", pc |-> IF r = None THEN "send_poll" ELSE "idle",
                   sid |-> Some(sid), result |-> r, k |-> n, got |-> head_no(sid, r)]]
    /\ UNCHANGED <<config, env, gap, proto, state, task>>

\* send_answer up to its first sleep: the checks, the delivery, and the first
\* pass of the loop.
send_answer(c, sid, text) ==
    /\ call[c].pc = "idle"
    /\ IF sid \notin Live
       THEN /\ call' = [call EXCEPT ![c] =
                  [op |-> "send", pc |-> "idle", sid |-> Some(sid),
                   result |-> Some(not_found_result), k |-> 0, got |-> 0]]
            /\ UNCHANGED <<SESSIONS, turns>>
       ELSE IF truthy(SESSIONS[sid].last_error)
       THEN /\ call' = [call EXCEPT ![c] =
                  [op |-> "send", pc |-> "idle", sid |-> Some(sid),
                   result |-> Some(error_result(SESSIONS[sid].last_error[1])),
                   k |-> 0, got |-> 0]]
            /\ UNCHANGED <<SESSIONS, turns>>
       ELSE LET sess == deliver(SESSIONS[sid], text)
                r == send_poll(sess)
                n == IF awaited(SESSIONS[sid]) THEN turns[sid].delivered + 1 ELSE 0 IN
            /\ SESSIONS' = [SESSIONS EXCEPT ![sid] = polled(sess, r)]
            /\ turns' = [turns EXCEPT ![sid].delivered =
                            IF awaited(SESSIONS[sid]) THEN @ + 1 ELSE @]
            /\ call' = [call EXCEPT ![c] =
                  [op |-> "send", pc |-> IF r = None THEN "send_poll" ELSE "idle",
                   sid |-> Some(sid), result |-> r, k |-> n, got |-> head_no(sid, r)]]
    /\ UNCHANGED <<config, env, gap, proto, state, task>>

\* A later pass of send_answer's loop.
SendPoll(c) ==
    /\ call[c].pc = "send_poll"
    /\ LET sid == call[c].sid[1]
           r == send_poll(SESSIONS[sid]) IN
       /\ r # None
       /\ SESSIONS' = [SESSIONS EXCEPT ![sid] = polled(@, r)]
       /\ call' = [call EXCEPT ![c].pc = "idle", ![c].result = r,
                               ![c].got = head_no(sid, r)]
    /\ UNCHANGED <<config, env, gap, proto, state, task, turns>>

\* The 200 passes are used up: after its last sleep the call returns "Still
\* waiting for the next prompt" without looking at the session again.
SendTimeout(c) ==
    /\ call[c].pc = "send_poll"
    /\ call' = [call EXCEPT ![c].pc = "idle", ![c].result = Some(waiting_result)]
    /\ UNCHANGED <<config, env, gap, proto, SESSIONS, state, task, turns>>

\* ------------------------------------------------------------------- Next

\* The steps of the sessions S driven by the UI calls C.
NextOf(S, C) ==
    \/ \E sid \in S : Evaluate(sid)
    \/ \E sid \in S : EvaluateFails(sid)
    \/ \E sid \in S : Ask(sid)
    \/ \E sid \in S, text \in AnswerTexts : ConsoleInput(sid, text)
    \/ \E sid \in S : ConsoleEOF(sid)
    \/ \E sid \in S : RecursionLimitReached(sid)
    \/ \E sid \in S : Resume(sid)
    \/ \E sid \in S : Review(sid)
    \/ \E sid \in S : Report(sid)
    \/ \E c \in C, sid \in S : start_session(c, sid)
    \/ \E c \in C : StartPoll(c)
    \/ \E c \in C : StartTimeout(c)
    \/ \E c \in C, sid \in SessionIds, text \in AnswerTexts : send_answer(c, sid, text)
    \/ \E c \in C : SendPoll(c)
    \/ \E c \in C : SendTimeout(c)

\* One session (the other id stays unknown) and one UI call at a time.
Next == NextOf({"s1"}, {"c1"})

Spec == Init /\ [][Next]_vars

\* asyncio runs every task that is ready, a polling loop ends after its last
\* pass, the user answers every prompt that is waiting for an answer (the
\* console that reads a line gets one, or is closed), and the library ends a
\* run that stays at its limit of steps.
Fairness ==
    /\ WF_vars(Evaluate("s1") \/ EvaluateFails("s1"))
    /\ WF_vars(Ask("s1"))
    /\ WF_vars((\E text \in AnswerTexts : ConsoleInput("s1", text)) \/ ConsoleEOF("s1"))
    /\ WF_vars(RecursionLimitReached("s1"))
    /\ WF_vars(Resume("s1"))
    /\ WF_vars(Review("s1"))
    /\ WF_vars(Report("s1"))
    /\ WF_vars(StartPoll("c1") \/ StartTimeout("c1"))
    /\ WF_vars(SendPoll("c1") \/ SendTimeout("c1"))
    /\ SF_vars(\E text \in AnswerTexts :
                  /\ "s1" \in Live
                  /\ awaited(SESSIONS["s1"])
                  /\ send_answer("c1", "s1", text))

FairSpec == Spec /\ Fairness

\* Two sessions of the same configuration, each driven by its own UI call;
\* the user of s1 types any answer, the user of s2 blank answers only, and
\* both answer only prompts that wait for an answer.
NextIso ==
    \E p \in {<<"s1", "c1">>, <<"s2", "c2">>} :
        \/ Evaluate(p[1])
        \/ EvaluateFails(p[1])
        \/ Ask(p[1])
        \/ \E text \in (IF p[1] = "s1" THEN AnswerTexts ELSE {<<>>}) :
              ConsoleInput(p[1], text)
        \/ ConsoleEOF(p[1])
        \/ RecursionLimitReached(p[1])
        \/ Resume(p[1])
        \/ Review(p[1])
        \/ Report(p[1])
        \/ start_session(p[2], p[1])
        \/ StartPoll(p[2])
        \/ StartTimeout(p[2])
        \/ \E text \in (IF p[1] = "s1" THEN AnswerTexts ELSE {<<>>}) :
              /\ p[1] \in Live
              /\ awaited(SESSIONS[p[1]])
              /\ send_answer(p[2], p[1], text)
        \/ SendPoll(p[2])
        \/ SendTimeout(p[2])

\* Largest number of follow-up chances the two sessions are explored with.
IsoChances == 1

\* The two sessions exist only where create_session returns.  Of the two
\* installations whose ask node reads the console, which differ in the report
\* node only, the one without update_node is explored; follow-ups are
\* explored where the ask node waits for the UI.
InitIso ==
    /\ Init
    /\ env.init_chat_model
    /\ env.ask_call # "plain"
    /\ config.no_followup_chances <= IsoChances
    /\ ask_mode # "wait" => config.no_followup_chances = 0

SpecIso == InitIso /\ [][NextIso]_vars

\* One session and two UI calls at a time: two users (or one user clicking
\* twice) answer the prompt of the same session while it has a future.  The
\* call c2 is always a second one: it starts when the future is resolved and
\* the task has not taken the answer yet.
NextRace ==
    \/ Evaluate("s1")
    \/ EvaluateFails("s1")
    \/ Ask("s1")
    \/ \E text \in AnswerTexts : ConsoleInput("s1", text)
    \/ ConsoleEOF("s1")
    \/ RecursionLimitReached("s1")
    \/ Resume("s1")
    \/ Review("s1")
    \/ Report("s1")
    \/ start_session("c1", "s1")
    \/ StartPoll("c1")
    \/ StartTimeout("c1")
    \/ \E text \in AnswerTexts :
          /\ "s1" \in Live
          /\ SESSIONS["s1"].current_future # None
          /\ send_answer("c1", "s1", text)
    \/ \E text \in AnswerTexts :
          /\ "s1" \in Live
          /\ SESSIONS["s1"].current_future # None
          /\ SESSIONS["s1"].current_future[1].done
          /\ send_answer("c2", "s1", text)
    \/ \E c \in Callers : SendPoll(c)
    \/ \E c \in Callers : SendTimeout(c)

SpecRace == Init /\ [][NextRace]_vars

\* The gap checker alone: it is called with any answer and any list of
\* required keywords, and returns.
InitKeywords ==
    /\ config = [no_followup_chances |-> 0]
    /\ env = [init_chat_model |-> FALSE, update_node |-> FALSE, ask_call |-> "none"]
    /\ SESSIONS = << >>
    /\ state = << >>
    /\ task = << >>
    /\ turns = << >>
    /\ call = [c \in Callers |-> idle]
    /\ gap \in [answer : Answers, required_keywords : KeywordLists, missing : {None}]
    /\ proto = no_proto

FindMissing ==
    /\ gap.missing = None
    /\ gap' = [gap EXCEPT !.missing =
                  Some(find_missing_keywords(gap.answer, gap.required_keywords))]
    /\ UNCHANGED <<config, env, SESSIONS, state, task, call, turns, proto>>

SpecKeywords == InitKeywords /\ [][FindMissing]_vars

\* A run of the prototype (pc "ask", "wait", "evaluate", "ended", or "raised"
\* when the run left by an exception).  Interviewer.run invokes the graph at its entry
\* point, the evaluate node.  The graph of src/agents.py has the ask node as
\* its entry point and no edge out of it: the UI shows last_prompt, stores
\* the answer in latest_answer and runs the evaluate node and the router.
InitProto ==
    /\ config = [no_followup_chances |-> 0]
    /\ env = [init_chat_model |-> FALSE, update_node |-> FALSE, ask_call |-> "none"]
    /\ SESSIONS = << >>
    /\ state = << >>
    /\ task = << >>
    /\ turns = << >>
    /\ call = [c \in Callers |-> idle]
    /\ gap = no_gap
    /\ proto \in {[no_proto EXCEPT !.pc = "evaluate"],
                  [no_proto EXCEPT !.rev = "functions", !.pc = "ask"]}

\* The evaluate node, then the router.
ProtoEvaluate ==
    /\ proto.pc = "evaluate"
    /\ LET s1 == IF proto.rev = "functions"
                 THEN fn_node_evaluate_answer(proto.state)
                 ELSE proto_node_evaluate_answer(proto.state)
           next == IF proto.rev = "functions" THEN fn_router(s1) ELSE proto_router(s1)
           grown == Len(s1.pending_followups) - Len(proto.state.pending_followups) IN
       proto' = [proto EXCEPT
           !.state = s1,
           !.pc = IF next = "end" THEN "ended" ELSE "ask",
           !.origin = @ \o [j \in 1..grown |-> proto.state.question_idx]]
    /\ UNCHANGED <<config, env, SESSIONS, state, task, call, turns, gap>>

\* The ask node up to the input; without a prompt the node returns at once
\* (to the evaluate node in the class, to the end of the run in the graph of
\* the functions).
ProtoAsk ==
    /\ proto.pc = "ask"
    /\ LET fn == proto.rev = "functions"
           p == IF fn THEN fn_ask_prompt(proto.state) ELSE proto_ask_prompt(proto.state)
           s1 == IF fn THEN fn_node_ask_question(proto.state)
                 ELSE proto_ask_state(proto.state)
           follow_up == proto.state.pending_followups # <<>> IN
       proto' =
           IF p = None
           THEN [proto EXCEPT !.state = s1, !.pc = IF fn THEN "ended" ELSE "evaluate"]
           ELSE [proto EXCEPT
                   !.state = s1,
                   !.pc = "wait",
                   !.prompt = p,
                   !.origin = IF follow_up THEN Tail(@) ELSE @,
                   !.shown = Append(@,
                       [text |-> p[1],
                        at |-> proto.state.question_idx,
                        from |-> IF follow_up THEN Head(proto.origin) ELSE -1,
                        answered |-> Len(proto.state.answers)])]
    /\ UNCHANGED <<config, env, SESSIONS, state, task, call, turns, gap>>

\* The user types text: the ask node of the class stores it and the prompt;
\* the UI of the functions stores it (last_prompt holds the prompt already).
ProtoInput(text) ==
    /\ proto.pc = "wait"
    /\ Len(proto.state.answers) < MaxTurns
    /\ proto' = [proto EXCEPT
          !.state.latest_answer = Some(text),
          !.state.last_prompt = proto.prompt,
          !.prompt = None,
          !.pc = "evaluate"]
    /\ UNCHANGED <<config, env, SESSIONS, state, task, call, turns, gap>>

\* The console of the class is closed: input("> ") raises EOFError, which
\* leaves the ask node and Interviewer.run; nothing is stored and done is not
\* set.  (The functions read no input: their UI stores the answer.)
ProtoEOF ==
    /\ proto.pc = "wait"
    /\ proto.rev = "class"
    /\ proto' = [proto EXCEPT !.prompt = None, !.pc = "raised"]
    /\ UNCHANGED <<config, env, SESSIONS, state, task, call, turns, gap>>

NextProto ==
    \/ ProtoEvaluate
    \/ ProtoAsk
    \/ \E text \in ProtoAnswers : ProtoInput(text)
    \/ ProtoEOF

SpecProto == InitProto /\ [][NextProto]_vars

\* Every revision: a session of the judge variant behind the UI calls, or a
\* run of one of the keyword prototypes.
InitAll == Init \/ InitProto

NextAll == Next \/ NextProto

SpecAll == InitAll /\ [][NextAll]_vars

\* ----------------------------------------------------- reading the state

Range(f) == {f[i] : i \in DOMAIN f}

\* The trackers of session sid, and the configured number of chances.
Trackers(sid) == state[sid].llm_responses
Chances == config.no_followup_chances

\* Whether a judge response reported a gap.
IsGap(raw) == strip(raw) # <<>>
AllGap(history) == \A j \in 1..Len(history) : IsGap(history[j])

\* The index (from 1) of the question a record of answers belongs to.
QuestionOf(record) == CHOOSE i \in 1..NumQuestions : questions[i].id = record.question_id

\* The records of answers that belong to question i.
RecordsOf(sid, i) == SelectSeq(state[sid].answers, LAMBDA r : r.question_id = questions[i].id)

\* The task stands at an evaluation boundary: the evaluate node and the router
\* have run, the next node has not.
AtBoundary(sid) == task[sid].pc \in {"ask", "review"}

\* ------------------------------------------------------------------- C1
\* C1: in every reachable state the follow_up_count of every question that
\* has been evaluated is at most the configured number of follow-up chances.
C1_FollowUpCountBounded ==
    \A sid \in Live : \A i \in 1..Len(Trackers(sid)) :
        Trackers(sid)[i].follow_up_count <= Chances

\* A question has used its whole budget of two follow-ups, and a later question
\* is being evaluated.
C1_Witness ==
    \E sid \in Live :
        /\ Chances = 2
        /\ Len(Trackers(sid)) = 2
        /\ Trackers(sid)[1].follow_up_count = 2
        /\ Trackers(sid)[2].follow_up_count >= 1

\* ------------------------------------------------------------------- C2
\* C2: for a question all of whose evaluations reported a gap, at most N + 1
\* prompts are pushed (the question, then one follow-up per gap found within
\* the budget N), question_index moves past the question exactly when N + 1
\* answers have been evaluated, the N + 1 prompts having been pushed, and with
\* N = 0 no follow-up is ever queued or counted.
C2_FollowUpBudget ==
    \A sid \in Live : \A i \in 1..Len(Trackers(sid)) :
        LET t == Trackers(sid)[i]
            past == state[sid].q_idx > i - 1
        IN  /\ AllGap(t.history) =>
                /\ Len(t.history) <= Chances + 1
                /\ past <=> (Len(t.history) = Chances + 1)
                /\ past => turns[sid].asked[i] = Chances + 1
                /\ turns[sid].asked[i] <= Chances + 1
                /\ t.follow_up_count = IF past THEN Chances ELSE Len(t.history)
            /\ Chances = 0 =>
                /\ t.follow_up_count = 0
                /\ state[sid].pending_followups = <<>>
                /\ turns[sid].asked[i] <= 1

\* The spec's example: two chances, three answers to the first question all
\* with a gap, three prompts pushed for it, and the second question current.
C2_Witness ==
    \E sid \in Live :
        /\ Chances = 2
        /\ Len(Trackers(sid)) >= 1
        /\ AllGap(Trackers(sid)[1].history)
        /\ Len(Trackers(sid)[1].history) = 3
        /\ turns[sid].asked[1] = 3
        /\ state[sid].q_idx = 1

\* ------------------------------------------------------------------- C3
\* C3: no step of a session decreases its question_index.
C3_QuestionIndexMonotone ==
    [][\A sid \in Live : state'[sid].q_idx >= state[sid].q_idx]_vars

\* The index has moved past every question, after a follow-up to the first.
C3_Witness ==
    \E sid \in Live :
        /\ state[sid].q_idx = NumQuestions
        /\ Trackers(sid)[1].follow_up_count >= 1

\* ------------------------------------------------------------------- C4
\* C4: answers holds at most one record per question id, in
\* non-decreasing order of the question the records belong to.
C4_AtMostOneRecordPerQuestion ==
    \A sid \in Live :
        LET a == state[sid].answers IN
        /\ \A j, k \in 1..Len(a) : j < k => QuestionOf(a[j]) <= QuestionOf(a[k])
        /\ \A j, k \in 1..Len(a) : a[j].question_id = a[k].question_id => j = k

\* ------------------------------------------------------------------- C5
\* C5: a step appends a record to answers only if it resolves the
\* question (it moves question_index on); so a question ends with one record.
C5_RecordOnlyWhenResolved ==
    [][\A sid \in Live :
          state'[sid].answers # state[sid].answers =>
              state'[sid].q_idx = state[sid].q_idx + 1]_vars

\* ------------------------------------------------------------------- C6
\* C6: no question gets more than N + 1 prompts, and when every task that is
\* ready runs and every prompt that waits for an answer is answered, every
\* session started reaches the end of its interview: the done flag of its
\* state is set, which leads the run to the review.
C6_ReachesReview ==
    /\ [](\A sid \in Live : \A i \in 1..NumQuestions :
              turns[sid].asked[i] <= Chances + 1)
    /\ ("s1" \in Live) ~> ("s1" \in Live /\ state["s1"].done)

\* ------------------------------------------------------------------- C7
\* The three cases of C7.
FollowUpPending(sid) == state[sid].pending_followups # <<>>
MainPending(sid) == state[sid].pending_followups = <<>> /\ state[sid].q_idx < NumQuestions
NotInterviewing(sid) == state[sid].done

Count(P, Q, R) == (IF P THEN 1 ELSE 0) + (IF Q THEN 1 ELSE 0) + (IF R THEN 1 ELSE 0)

\* C7 as stated: at every evaluation boundary exactly one of the three holds.
C7_ExactlyOne ==
    \A sid \in Live :
        AtBoundary(sid) =>
            Count(FollowUpPending(sid), MainPending(sid), NotInterviewing(sid)) = 1

\* C7 as amended: at every evaluation boundary at most one of the three holds;
\* none holds exactly when the last question has just been resolved (the queue
\* is empty, question_index is the number of questions, done is not set yet),
\* and then the next step is the ask node, which sets done: with that fourth
\* case exactly one holds, and the machine always has a next action.
C7_ExactlyOneWithLastResolved ==
    \A sid \in Live :
        AtBoundary(sid) =>
            LET n == Count(FollowUpPending(sid), MainPending(sid), NotInterviewing(sid))
                resolved == /\ state[sid].pending_followups = <<>>
                            /\ state[sid].q_idx = NumQuestions
                            /\ ~state[sid].done
            IN  /\ n <= 1
                /\ (n = 0) <=> resolved
                /\ resolved => task[sid].pc = "ask" /\ ask_state(state[sid]).done
                /\ (n = 1 /\ ~state[sid].done) =>
                       task[sid].pc = "ask" /\ ask_prompt(state[sid]) # None
                /\ state[sid].done <=> task[sid].pc = "review"

\* The boundary after the last question is resolved, past a follow-up.
C7_Witness ==
    \E sid \in Live :
        /\ AtBoundary(sid)
        /\ state[sid].q_idx = NumQuestions
        /\ ~state[sid].done
        /\ Len(state[sid].answers) > NumQuestions

\* ------------------------------------------------------------------- C8
\* C8 as stated: while pending_followups is not empty the session is not done,
\* question_index is below the number of questions, and the current question
\* has follow-up chances left.
C8_PendingOnlyWithBudgetLeft ==
    \A sid \in Live :
        state[sid].pending_followups # <<>> =>
            /\ ~state[sid].done
            /\ state[sid].q_idx < NumQuestions
            /\ Len(Trackers(sid)) > state[sid].q_idx
            /\ Trackers(sid)[state[sid].q_idx + 1].follow_up_count < Chances

\* C8 as amended: while pending_followups is not empty the session is not done,
\* question_index is below the number of questions, and the queue holds one
\* follow-up that is already counted in the budget of the current question:
\* its follow_up_count is at least 1 and at most N (the last chance in use).
C8_PendingOnlyWithinBudget ==
    \A sid \in Live :
        state[sid].pending_followups # <<>> =>
            /\ ~state[sid].done
            /\ ~SESSIONS[sid].done
            /\ state[sid].q_idx < NumQuestions
            /\ Len(Trackers(sid)) > state[sid].q_idx
            /\ Trackers(sid)[state[sid].q_idx + 1].follow_up_count \in 1..Chances

\* The follow-up of the last chance of the last question is in the queue.
C8_Witness ==
    \E sid \in Live :
        /\ state[sid].pending_followups # <<>>
        /\ state[sid].q_idx = NumQuestions - 1
        /\ Chances = 2
        /\ Trackers(sid)[state[sid].q_idx + 1].follow_up_count = Chances

\* ------------------------------------------------------------------- C9
\* All of session sid.
Session(sid) == <<SESSIONS[sid], state[sid], task[sid], turns[sid]>>

\* C9: no step changes two sessions, creating a session changes no other, and
\* the state of a session is a function of its own answers and of the judge's
\* responses to them: two sessions at the same place of their run with the
\* same answers recorded, the same judge responses stored and the same answer
\* at hand are in the same state.
C9_SessionsIsolated ==
    /\ [][\A a, b \in SessionIds :
            (a # b /\ a \in Live /\ b \in DOMAIN SESSIONS') =>
                (b \in Live /\ Session(b)' = Session(b)) \/ Session(a)' = Session(a)]_vars
    /\ [](\A a, b \in Live :
            (/\ task[a] = task[b]
             /\ state[a].answers = state[b].answers
             /\ state[a].latest_answer = state[b].latest_answer
             /\ state[a].llm_responses = state[b].llm_responses
             /\ SESSIONS[a].current_future = SESSIONS[b].current_future)
            => state[a] = state[b])

\* Two sessions that were given different answers: one is past its first
\* question, the other at a follow-up to it.
C9_Witness ==
    /\ Live = SessionIds
    /\ state["s1"].q_idx = 1
    /\ state["s2"].q_idx = 0
    /\ Len(state["s1"].answers) = 1
    /\ state["s1"].answers[1].answer = <<"a">>
    /\ Len(state["s2"].answers) = 1
    /\ state["s2"].answers[1].answer = <<>>
    /\ task["s1"].pc = "wait"
    /\ task["s2"].pc = "wait"

\* ------------------------------------------------------------------ C10
\* C10: the answers given to futures never outnumber the prompts pushed, the
\* answers evaluated never those given, a prompt is pushed only when every
\* earlier answer is evaluated, and a send_answer call that returns a prompt
\* has delivered its answer, the k-th, and returns prompt k + 1, the one
\* computed after the evaluation of that answer.
C10_InOrderNoPipelining ==
    \A sid \in Live :
        /\ turns[sid].delivered <= turns[sid].emitted
        /\ Len(state[sid].answers) <= turns[sid].delivered
        /\ turns[sid].emitted <= Len(state[sid].answers) + 1
        /\ \A c \in Callers :
              (/\ call[c].op = "send"
               /\ call[c].pc = "idle"
               /\ call[c].sid = Some(sid)
               /\ call[c].result # None
               /\ call[c].result[1].kind = "prompt")
              => /\ call[c].k >= 1
                 /\ call[c].got = call[c].k + 1

\* ------------------------------------------------------------------ C11
\* C11: send_answer with a session id that is not in SESSIONS returns the
\* "Session not found" result with done set, and changes nothing: no session
\* is created, and no session's state, future, prompt queue or task changes.
C11_UnknownSessionRejected ==
    [][\A c \in Callers, sid \in SessionIds, text \in AnswerTexts :
          (sid \notin Live /\ send_answer(c, sid, text)) =>
              /\ call'[c].result = Some(not_found_result)
              /\ call'[c].result[1].done
              /\ call'[c].pc = "idle"
              /\ SESSIONS' = SESSIONS
              /\ state' = state
              /\ task' = task
              /\ turns' = turns]_vars

\* A call with an unknown id has returned while another session waits for an
\* answer with its prompt still in the queue.
C11_Witness ==
    /\ call["c1"].op = "send"
    /\ call["c1"].sid = Some("s2")
    /\ call["c1"].result = Some(not_found_result)
    /\ "s1" \in Live
    /\ "s2" \notin Live
    /\ awaited(SESSIONS["s1"])
    /\ SESSIONS["s1"].pending_prompts # <<>>

\* ------------------------------------------------------------------ C12
\* C12: send_answer on a session that is done returns a terminal result (done
\* set: the interview is complete, or its error) and leaves the session as it
\* was: the state the registry holds (latest_answer, answers, q_idx) and
\* the state of the run are unchanged.
C12_CompletedSessionUntouched ==
    [][\A c \in Callers, sid \in SessionIds, text \in AnswerTexts :
          (sid \in Live /\ SESSIONS[sid].done /\ send_answer(c, sid, text)) =>
              /\ call'[c].result # None
              /\ call'[c].result[1].kind \in {"complete", "error"}
              /\ call'[c].result[1].done
              /\ SESSIONS'[sid].state = SESSIONS[sid].state
              /\ state'[sid] = state[sid]]_vars

\* ------------------------------------------------------------------ C13
\* C13: send_answer on a session that is not done and awaits no answer does
\* not store the answer in the session state, and what it returns in that
\* step is an error result, unless no prompt has been pushed yet (an early
\* answer may then be buffered).
C13_NoPendingQuestionRejected ==
    [][\A c \in Callers, sid \in SessionIds, text \in AnswerTexts :
          (/\ sid \in Live
           /\ ~SESSIONS[sid].done
           /\ ~awaited(SESSIONS[sid])
           /\ turns[sid].emitted > 0
           /\ send_answer(c, sid, text)) =>
              /\ call'[c].result # None => call'[c].result[1].kind = "error"
              /\ SESSIONS'[sid].state = SESSIONS[sid].state
              /\ SESSIONS'[sid].current_future = SESSIONS[sid].current_future]_vars

\* ------------------------------------------------------------------ C14
\* C14: a session has a future exactly while its task is suspended in
\* get_user_input, the futures created outnumber the answers given to them by
\* at most one, exactly when the future is unresolved, and a future is created
\* only when the session has none: the previous one was resolved and the task
\* has taken its answer.
C14_AtMostOneWaiter ==
    /\ [](\A sid \in Live :
            /\ (task[sid].pc = "wait") <=> (SESSIONS[sid].current_future # None)
            /\ turns[sid].emitted - turns[sid].delivered \in {0, 1}
            /\ awaited(SESSIONS[sid]) <=> (turns[sid].emitted - turns[sid].delivered = 1))
    /\ [][\A sid \in Live :
            (awaited(SESSIONS'[sid]) /\ ~awaited(SESSIONS[sid])) =>
                /\ SESSIONS[sid].current_future = None
                /\ turns[sid].emitted = turns[sid].delivered
                /\ turns[sid].emitted > 0 =>
                       state[sid].latest_answer # None]_vars

\* The second future of a session is unresolved: the first was resolved and
\* its answer evaluated.
C14_Witness ==
    \E sid \in Live :
        /\ awaited(SESSIONS[sid])
        /\ turns[sid].emitted = 2
        /\ turns[sid].delivered = 1
        /\ Len(state[sid].answers) = 1

\* ------------------------------------------------------------------ C15
\* C15: a judge call that fails during an evaluation ends no session: a
\* session that holds an answer still to be evaluated is not done, has no
\* error and its task has not ended, and no UI call returns the error.
C15_JudgeFailureRecovered ==
    \A sid \in Live :
        evaluates(state[sid]) =>
            /\ SESSIONS[sid].last_error = None
            /\ ~SESSIONS[sid].done
            /\ task[sid].pc # "ended"
            /\ \A c \in Callers :
                  (call[c].sid = Some(sid) /\ call[c].result # None)
                  => call[c].result[1].kind # "error"

\* ------------------------------------------------------------------ C16
\* C16: every start_session and send_answer call that has returned holds the
\* next prompt of the interview or a terminal result (complete, error, session
\* not found) with done set.
C16_PromptOrTerminalSignal ==
    \A c \in Callers :
        (call[c].pc = "idle" /\ call[c].result # None) =>
            LET r == call[c].result[1] IN
            \/ /\ r.kind = "prompt"
               /\ ~r.done
               /\ call[c].got >= 1
            \/ /\ r.kind \in {"complete", "error", "not_found"}
               /\ r.done

\* ------------------------------------------------------------------ C17
\* A step in which the except and finally blocks of run_graph_in_background
\* run: it ends the run of session sid with a terminal outcome other than a
\* completed interview and leaves no future unresolved.
EndsOtherThanDone(sid) ==
    /\ Next
    /\ task[sid].pc # "ended"
    /\ ~SESSIONS[sid].done
    /\ task'[sid].pc = "ended"
    /\ SESSIONS'[sid].done
    /\ SESSIONS'[sid].last_error # None
    /\ ~awaited(SESSIONS'[sid])

\* C17: a session whose task is suspended on an unresolved future can be
\* cancelled: some step of the program resolves the waiter with a terminal
\* signal and ends the session with an outcome other than Done.
C17_WaiterCanBeCancelled ==
    \A sid \in Live :
        (~SESSIONS[sid].done /\ awaited(SESSIONS[sid])) => ENABLED EndsOtherThanDone(sid)

\* ------------------------------------------------------------------ C18
\* C18: a session enters SESSIONS with the initial state (q_idx 0, no
\* follow-up, no answer, not done) and no future or prompt, and a
\* start_session call that has returned holds the id of a session whose task
\* has reached its first wait, and the first prompt, the text of question 0.
C18_StartReturnsFirstPrompt ==
    /\ [][\A sid \in SessionIds :
            (sid \notin Live /\ sid \in DOMAIN SESSIONS') =>
                /\ SESSIONS'[sid] = new_session
                /\ state'[sid] = initial_state_from_config
                /\ state'[sid].q_idx = 0
                /\ state'[sid].pending_followups = <<>>
                /\ state'[sid].answers = <<>>
                /\ ~state'[sid].done]_vars
    /\ [](\A c \in Callers :
            (call[c].op = "start" /\ call[c].pc = "idle") =>
                /\ call[c].sid # None
                /\ call[c].sid[1] \in Live
                /\ turns[call[c].sid[1]].emitted >= 1
                /\ call[c].result = Some(prompt_result(questions[1].text))
                /\ call[c].got = 1)

\* ------------------------------------------------------------------ C19
\* Whether m is r with some elements left out.
RECURSIVE IsSubsequence(_, _)
IsSubsequence(m, r) ==
    IF m = <<>> THEN TRUE
    ELSE IF r = <<>> THEN FALSE
    ELSE IF Head(m) = Head(r) THEN IsSubsequence(Tail(m), Tail(r))
    ELSE IsSubsequence(m, Tail(r))

\* C19: what the gap checker returns is the list of required keywords with
\* those taken out that the pattern search finds in the answer: each keyword
\* without a match once for each time it is required, in the order of the
\* list; it is the empty list for an empty list of keywords.
C19_MissingInOrder ==
    gap.missing # None =>
        LET m == gap.missing[1]
            r == gap.required_keywords
            found(kw) == search(pattern(lower(kw)), lower(gap.answer))
        IN  /\ IsSubsequence(m, r)
            /\ m = SelectSeq(r, LAMBDA kw : ~found(kw))
            /\ \A kw \in KeywordTexts : found(kw) => kw \notin Range(m)
            /\ r = <<>> => m = <<>>

\* Two different keywords are required, both are missing and returned in the
\* order of the list, the first being one that contains a separator.
C19_Witness ==
    /\ gap.missing # None
    /\ Len(gap.required_keywords) = 2
    /\ gap.required_keywords[1] = <<"a", " ", "b">>
    /\ gap.required_keywords[2] = <<"A">>
    /\ gap.missing[1] = gap.required_keywords
    /\ gap.answer # <<>>

\* ------------------------------------------------------------------ C20
\* The tokens of a text: whitespace, hyphen, underscore and slash separate.
TokenSeparators == {" ", "-", "_", "/"}

RECURSIVE tokens_from(_, _, _)
tokens_from(t, i, cur) ==
    IF i > Len(t) THEN (IF cur = <<>> THEN <<>> ELSE <<cur>>)
    ELSE IF t[i] \in TokenSeparators
         THEN (IF cur = <<>> THEN <<>> ELSE <<cur>>) \o tokens_from(t, i + 1, <<>>)
         ELSE tokens_from(t, i + 1, Append(cur, t[i]))

Tokens(t) == tokens_from(lower(t), 1, <<>>)

\* The keyword is in the answer as whole tokens, whatever the case and the
\* separators between them.
WholeTokenMatch(kw, answer) ==
    LET k == Tokens(kw)
        a == Tokens(answer)
    IN  \E i \in 1..(Len(a) - Len(k) + 1) : SubSeq(a, i, i + Len(k) - 1) = k

\* C20: a required keyword is found (not returned as missing) exactly when it
\* is in the answer as whole tokens, case ignored, with whitespace, hyphen,
\* underscore and slash equivalent as separators in keyword and answer.
C20_WholeTokenAnySeparator ==
    gap.missing # None =>
        \A j \in 1..Len(gap.required_keywords) :
            LET kw == gap.required_keywords[j] IN
            (kw \notin Range(gap.missing[1])) <=> WholeTokenMatch(kw, gap.answer)

\* Whether queue b is queue a with entries appended at the tail.
Extends(b, a) == Len(b) >= Len(a) /\ SubSeq(b, 1, Len(a)) = a

\* C21: while the follow-up queue is non-empty the next prompt is its head,
\* which is removed, so that no main question is emitted before the queue is
\* empty; follow-ups enter the queue at the tail only, and therefore are asked
\* in the order in which they were generated.
C21_FollowUpsFirstInOrder ==
    [][ /\ \A sid \in Live :
            /\ (task[sid].pc = "ask" /\ state[sid].pending_followups # <<>>
                   /\ task'[sid] # task[sid] /\ task'[sid].pc # "ended")
               => /\ task'[sid].prompt = Some(Head(state[sid].pending_followups))
                  /\ state'[sid].pending_followups = Tail(state[sid].pending_followups)
            /\ task[sid].pc # "ask"
               => \/ Extends(state'[sid].pending_followups, state[sid].pending_followups)
                  \/ state'[sid].pending_followups = <<>>
        /\ (proto.pc = "ask" /\ proto.state.pending_followups # <<>> /\ proto' # proto)
           => /\ proto'.prompt = Some(Head(proto.state.pending_followups))
              /\ proto'.state.pending_followups = Tail(proto.state.pending_followups)
        /\ proto.pc # "ask"
           => Extends(proto'.state.pending_followups, proto.state.pending_followups)
      ]_vars

\* The first of two queued follow-ups is shown, the second waits.
C21_Witness ==
    /\ proto.pc = "wait"
    /\ proto.prompt = Some(follow_up_text(<<"a">>))
    /\ proto.state.pending_followups = <<follow_up_text(<<"b">>)>>

\* C22: whenever an evaluation advances the question index the follow-up
\* queue is empty in the resulting state, and so no follow-up generated for
\* question i is shown while the question index is greater than i.
C22_QueueEmptyOnAdvance ==
    /\ [][ /\ \A sid \in Live :
               state'[sid].q_idx > state[sid].q_idx
               => state'[sid].pending_followups = <<>>
           /\ proto'.state.question_idx > proto.state.question_idx
              => proto'.state.pending_followups = <<>>
         ]_vars
    /\ [](\A j \in 1..Len(proto.shown) :
             proto.shown[j].from # -1 => proto.shown[j].at = proto.shown[j].from)

\* C23: the answer given to a follow-up is evaluated against the full set of
\* required keywords of the question whose gap generated the follow-up (the
\* j-th record is the evaluation of the answer to the j-th prompt shown).
C23_FollowUpAnswerAgainstItsQuestion ==
    \A j \in 1..Len(proto.state.answers) :
        proto.shown[j].from # -1
        => LET q == proto_questions[proto.shown[j].from + 1]
               record == proto.state.answers[j] IN
           /\ record.question_id = q.id
           /\ record.missing = find_missing_keywords(record.answer, q.required_keywords)

\* The step is an evaluation of session sid in which the judge reports a gap.
EvaluatedGap(sid) ==
    /\ task[sid].pc = "evaluate"
    /\ evaluates(state[sid])
    /\ Len(state'[sid].answers) = Len(state[sid].answers) + 1
    /\ IsGap(state'[sid].llm_responses[state[sid].q_idx + 1].history[
                 Len(state'[sid].llm_responses[state[sid].q_idx + 1].history)])

\* The follow-up the judge gave in that step.
GivenFollowUp(sid) ==
    LET history == state'[sid].llm_responses[state[sid].q_idx + 1].history
    IN  strip(history[Len(history)])

\* The follow-up counter of the current question before the evaluation, and
\* the required keywords the answer under evaluation does not mention.
CountBefore(sid) == tracked(state[sid], state[sid].q_idx)[state[sid].q_idx + 1].follow_up_count
MissingBefore(sid) ==
    find_missing_keywords(strip(state[sid].latest_answer[1]),
                          questions[state[sid].q_idx + 1].required_keywords)

\* C24 as stated: a gap evaluation within the budget, k >= 1 keywords missing,
\* queues one follow-up per missing keyword, counts 1 and keeps the question
\* index; a gap evaluation with the counter exhausted abandons the question.
C24_OneFollowUpPerMissingKeyword ==
    [][\A sid \in Live : EvaluatedGap(sid) =>
          IF CountBefore(sid) < Chances
          THEN /\ Len(MissingBefore(sid)) >= 1
                  => Len(state'[sid].pending_followups)
                       = Len(state[sid].pending_followups) + Len(MissingBefore(sid))
               /\ state'[sid].llm_responses[state[sid].q_idx + 1].follow_up_count
                    = CountBefore(sid) + 1
               /\ state'[sid].q_idx = state[sid].q_idx
          ELSE /\ state'[sid].q_idx = state[sid].q_idx + 1
               /\ state'[sid].pending_followups = <<>>
      ]_vars

\* C24, amended: a gap evaluation within the budget queues exactly the one
\* follow-up of the judge's response, however many keywords are missing,
\* counts 1 and keeps the question index; a gap evaluation with the counter
\* exhausted abandons the question, queue emptied and counter unchanged.
C24_OneFollowUpPerGapEvaluation ==
    [][\A sid \in Live : EvaluatedGap(sid) =>
          IF CountBefore(sid) < Chances
          THEN /\ state'[sid].pending_followups
                    = Append(state[sid].pending_followups, GivenFollowUp(sid))
               /\ state'[sid].llm_responses[state[sid].q_idx + 1].follow_up_count
                    = CountBefore(sid) + 1
               /\ state'[sid].q_idx = state[sid].q_idx
          ELSE /\ state'[sid].q_idx = state[sid].q_idx + 1
               /\ state'[sid].pending_followups = <<>>
               /\ state'[sid].llm_responses[state[sid].q_idx + 1].follow_up_count
                    = CountBefore(sid)
      ]_vars

\* An empty answer to the first question, both keywords missing, has been
\* evaluated within the budget: one follow-up queued, one counted.
C24_Witness ==
    \E sid \in Live :
        /\ task[sid].pc = "ask"
        /\ state[sid].q_idx = 0
        /\ Len(state[sid].answers) = 1
        /\ Len(find_missing_keywords(state[sid].answers[1].answer,
                                     questions[1].required_keywords)) = 2
        /\ state[sid].pending_followups = <<<<"f">>>>
        /\ Trackers(sid)[1].follow_up_count = 1

\* Whether the prototype has shown main question i.
ProtoAsked(i) ==
    \E j \in 1..Len(proto.shown) :
        proto.shown[j].from = -1 /\ proto.shown[j].text = proto_questions[i].text

\* C25: an ask step with no follow-up pending and every question used up
\* emits no prompt and sets done; a run of the graph that has ended has done
\* true; and done is true only when no follow-up is pending and every question
\* has been asked.
C25_DoneExactlyAtTheEnd ==
    /\ [][ /\ \A sid \in Live :
               (task[sid].pc = "ask" /\ state[sid].pending_followups = <<>>
                  /\ state[sid].q_idx = NumQuestions /\ task'[sid] # task[sid])
               => /\ state'[sid].done
                  /\ turns'[sid] = turns[sid]
                  /\ SESSIONS'[sid].pending_prompts = SESSIONS[sid].pending_prompts
           /\ (proto.pc = "ask" /\ proto.state.pending_followups = <<>>
                 /\ proto.state.question_idx = NumQuestions)
              => /\ proto'.state.done
                 /\ proto'.shown = proto.shown
         ]_vars
    /\ [](\A sid \in Live :
             /\ task[sid].pc = "ended" => state[sid].done
             /\ state[sid].done
                => /\ state[sid].pending_followups = <<>>
                   /\ \A i \in 1..NumQuestions : turns[sid].asked[i] >= 1)
    /\ [](/\ proto.pc \in {"ended", "raised"} => proto.state.done
          /\ proto.state.done
             => /\ proto.state.pending_followups = <<>>
                /\ \A i \in 1..NumQuestions : ProtoAsked(i))

\* The step is an ask step of session sid that emits the text of question i.
EmitsQuestion(sid, i) ==
    /\ task[sid].pc = "ask"
    /\ task'[sid].pc \in {"wait", "console"}
    /\ task'[sid].prompt = Some(questions[i].text)

\* C26: a main question is emitted at most once per session: when the text
\* of question i is emitted, i is the current question, no prompt has been
\* emitted for it before and every answer recorded so far belongs to a
\* question of smaller index (in the prototype: every prompt shown before it
\* was shown at a smaller index).
C26_MainQuestionAtMostOnce ==
    /\ [][\A sid \in Live : \A i \in 1..NumQuestions : EmitsQuestion(sid, i) =>
             /\ i = state[sid].q_idx + 1
             /\ turns[sid].asked[i] = 0
             /\ \A j \in 1..Len(state[sid].answers) :
                    QuestionOf(state[sid].answers[j]) < i
          ]_vars
    /\ [](\A k \in 1..Len(proto.shown) : \A i \in 1..NumQuestions :
             proto.shown[k].text = proto_questions[i].text
             => /\ proto.shown[k].at = i - 1
                /\ \A j \in 1..(k - 1) : proto.shown[j].at < i - 1)

\* The second question is emitted after a follow-up to the first was answered.
C26_Witness ==
    \E sid \in Live :
        /\ task[sid].pc = "wait"
        /\ task[sid].prompt = Some(questions[2].text)
        /\ turns[sid].asked[1] >= 2
        /\ Len(state[sid].answers) >= 2

\* C27: an empty answer is an answer.  Delivered to the waiting ask node it
\* ends the wait and is stored with the prompt it answers (as is any line
\* typed at the console, the empty one included; a closed console ends the
\* run); the evaluate node
\* then has it judged and records it, with empty text, for the current
\* question (unless the judge call fails, as for any other answer).  The
\* prototype records it with every required keyword missing.
C27_EmptyAnswerIsAnAnswer ==
    [][ /\ \A sid \in Live :
            /\ (task[sid].pc = "wait" /\ task'[sid].pc # "wait"
                  /\ SESSIONS[sid].current_future = Some([done |-> TRUE, result |-> Some(<<>>)]))
               => /\ task'[sid].pc = "evaluate"
                  /\ state'[sid].latest_answer = Some(<<>>)
                  /\ state'[sid].latest_answer # None
                  /\ state'[sid].last_prompt = task[sid].prompt
            /\ (task[sid].pc = "console" /\ task'[sid].pc \notin {"console", "ended"})
               => /\ task'[sid].pc = "evaluate"
                  /\ state'[sid].latest_answer \in {Some(text) : text \in AnswerTexts}
                  /\ state'[sid].last_prompt = task[sid].prompt
            /\ (task[sid].pc = "evaluate" /\ task'[sid].pc \notin {"evaluate", "ended"}
                  /\ ~state[sid].done /\ state[sid].q_idx < NumQuestions
                  /\ state[sid].latest_answer = Some(<<>>))
               => /\ state'[sid].answers =
                        Append(state[sid].answers,
                               answer_record(questions[state[sid].q_idx + 1], <<>>))
                  /\ Len(state'[sid].llm_responses[state[sid].q_idx + 1].history)
                       = Len(tracked(state[sid], state[sid].q_idx)[state[sid].q_idx + 1].history) + 1
        /\ (proto.pc = "evaluate" /\ ~proto.state.done
              /\ proto.state.question_idx < NumQuestions
              /\ proto.state.latest_answer = Some(<<>>))
           => LET q == proto_questions[proto.state.question_idx + 1] IN
              proto'.state.answers =
                  Append(proto.state.answers,
                         [question_id |-> q.id, question |-> q.text, answer |-> <<>>,
                          missing |-> q.required_keywords, notes |-> q.guidance])
      ]_vars

\* The empty answer to the first question has been evaluated: it is the one
\* record, the judge was consulted once, and the first prompt is consumed.
C27_Witness ==
    \E sid \in Live :
        /\ task[sid].pc = "ask"
        /\ state[sid].latest_answer = Some(<<>>)
        /\ state[sid].last_prompt = Some(questions[1].text)
        /\ state[sid].answers = <<answer_record(questions[1], <<>>)>>
        /\ Len(Trackers(sid)[1].history) = 1
        /\ turns[sid].delivered = 1

\* The task of session sid stands before the review step, before the report
\* step, and at the end of its run.
InReview(sid) == sid \in Live /\ task[sid].pc = "review"
InReport(sid) == sid \in Live /\ task[sid].pc = "report"
RunEnded(sid) == sid \in Live /\ task[sid].pc = "ended"

\* The answers list is complete: every question is past and has one record
\* for each of its evaluations.
AnswersComplete(sid) ==
    /\ state[sid].q_idx = NumQuestions
    /\ state[sid].pending_followups = <<>>
    /\ Len(Trackers(sid)) = NumQuestions
    /\ \A i \in 1..NumQuestions :
           /\ RecordsOf(sid, i) # <<>>
           /\ Len(RecordsOf(sid, i)) = Len(Trackers(sid)[i].history)

\* The review and report steps run with done true over the complete answers,
\* the review is entered from the evaluate node only and never again once
\* left, the report is entered from the review only and left for the end of
\* the run only (without an error exactly when the report node is the
\* replacement of create_session; node_reporter itself raises), and neither
\* step changes answers.
ReviewReportOrder ==
    /\ [](\A sid \in Live :
             task[sid].pc \in {"review", "report"}
             => state[sid].done /\ AnswersComplete(sid))
    /\ [][\A sid \in Live :
             /\ (task'[sid].pc = "review" /\ task[sid].pc # "review")
                => task[sid].pc = "evaluate"
             /\ (task'[sid].pc = "report" /\ task[sid].pc # "report")
                => task[sid].pc = "review"
             /\ (task[sid].pc = "report" /\ task'[sid].pc # "report")
                => /\ task'[sid].pc = "ended"
                   /\ SESSIONS'[sid].done
                   /\ SESSIONS'[sid].last_error = None <=> env.update_node
                   /\ SESSIONS'[sid].last_error = None
                      => SESSIONS'[sid].state.answers = state[sid].answers
             /\ task[sid].pc = "ended" => task'[sid].pc = "ended"
             /\ task[sid].pc \in {"review", "report", "ended"}
                => state'[sid].answers = state[sid].answers
          ]_vars

\* C28 as stated: the review runs only once done is true, once, over the
\* complete answers, changes no record, and is followed by one report step.
C28_ReviewOnceThenReport ==
    /\ ReviewReportOrder
    /\ \A sid \in SessionIds : InReview(sid) ~> InReport(sid)

\* C28, amended: as stated, but the review is followed by the one report
\* step when it succeeds; when it fails the run ends at once, with the error
\* recorded and without a report step.
C28_ReviewOnceReportAfterSuccess ==
    /\ ReviewReportOrder
    /\ [][\A sid \in Live :
             (task[sid].pc = "review" /\ task'[sid].pc # "review")
             => \/ task'[sid].pc = "report" /\ SESSIONS'[sid].last_error = None
                \/ /\ task'[sid].pc = "ended"
                   /\ SESSIONS'[sid].last_error # None
                   /\ SESSIONS'[sid].done
          ]_vars
    /\ \A sid \in SessionIds : InReview(sid) ~> (InReport(sid) \/ RunEnded(sid))
    /\ \A sid \in SessionIds : InReport(sid) ~> RunEnded(sid)

\* Review and report have run: the run has ended without an error and the
\* session holds the final state with the records of the interview.
C28_Witness ==
    \E sid \in Live :
        /\ task[sid].pc = "ended"
        /\ SESSIONS[sid].last_error = None
        /\ state[sid].done
        /\ AnswersComplete(sid)
        /\ SESSIONS[sid].state.answers = state[sid].answers

\* C29: done is absorbing.  On a state with done true the ask node and the
\* evaluate node return the state as it is and choose no prompt, whatever the
\* judge would answer; and no step of a run changes the state, emits a prompt
\* or clears done once done is true.
C29_DoneAbsorbing ==
    /\ [](\A sid \in Live : state[sid].done =>
             /\ ask_prompt(state[sid]) = None
             /\ ask_state(state[sid]) = state[sid]
             /\ \A raw \in JudgeFollowUps \cup {<<>>} :
                    node_evaluate_answer(state[sid], raw, Chances) = state[sid])
    /\ [](proto.state.done =>
             /\ proto_ask_prompt(proto.state) = None
             /\ proto_ask_state(proto.state) = proto.state
             /\ proto_node_evaluate_answer(proto.state) = proto.state
             /\ fn_ask_prompt(proto.state) = None
             /\ fn_node_ask_question(proto.state) = proto.state
             /\ fn_node_evaluate_answer(proto.state) = proto.state)
    /\ [][ /\ \A sid \in Live : state[sid].done =>
                /\ state'[sid] = state[sid]
                /\ turns'[sid] = turns[sid]
                /\ Len(SESSIONS'[sid].pending_prompts) <= Len(SESSIONS[sid].pending_prompts)
           /\ proto.state.done =>
                /\ proto'.state = proto.state
                /\ proto'.shown = proto.shown
         ]_vars

\* The evaluate node has run on a state with done true and left it as the
\* ask node made it: the router has chosen the review.
C29_Witness ==
    \E sid \in Live :
        /\ task[sid].pc = "review"
        /\ state[sid].done
        /\ state[sid].q_idx = NumQuestions
        /\ Len(state[sid].answers) > NumQuestions

\* C30: in every reachable state the question index lies between 0 and the
\* number of questions (in the running state and in the state the session
\* stores), and a step that changes it is a step of the evaluate node and
\* adds exactly 1.
C30_QuestionIndexInRangeStepOne ==
    /\ [](\A sid \in Live :
             /\ state[sid].q_idx \in 0..NumQuestions
             /\ SESSIONS[sid].state.q_idx \in 0..NumQuestions)
    /\ [](proto.state.question_idx \in 0..NumQuestions)
    /\ [][ /\ \A sid \in Live :
               state'[sid].q_idx # state[sid].q_idx
               => /\ task[sid].pc = "evaluate"
                  /\ state'[sid].q_idx = state[sid].q_idx + 1
           /\ proto'.state.question_idx # proto.state.question_idx
              => /\ proto.pc = "evaluate"
                 /\ proto'.state.question_idx = proto.state.question_idx + 1
         ]_vars

\* Three evaluations of the first question: two kept the index, the third
\* moved it to the second question, which is being asked.
C30_Witness ==
    \E sid \in Live :
        /\ task[sid].pc = "wait"
        /\ state[sid].q_idx = 1
        /\ Len(RecordsOf(sid, 1)) = 3
        /\ state[sid].answers = RecordsOf(sid, 1)

\* The number of answers the judge has evaluated for session sid: the
\* responses stored in the trackers of its questions.
RECURSIVE responses_stored(_, _)
responses_stored(tr, n) ==
    IF n = 0 THEN 0 ELSE Len(tr[n].history) + responses_stored(tr, n - 1)

Evaluated(sid) == responses_stored(Trackers(sid), Len(Trackers(sid)))

\* C31: every step of the evaluate node on a state that is not done, holds
\* an answer and has a current question appends exactly one record, for the
\* question current before the step; so answers has one record for every
\* answer evaluated so far.
C31_OneRecordPerEvaluateStep ==
    /\ [][ /\ \A sid \in Live :
               (task[sid].pc = "evaluate" /\ task'[sid] # task[sid]
                  /\ evaluates(state[sid]))
               => /\ Len(state'[sid].answers) = Len(state[sid].answers) + 1
                  /\ SubSeq(state'[sid].answers, 1, Len(state[sid].answers))
                       = state[sid].answers
                  /\ state'[sid].answers[Len(state'[sid].answers)].question_id
                       = questions[state[sid].q_idx + 1].id
           /\ (proto.pc = "evaluate" /\ proto_evaluates(proto.state))
              => /\ Len(proto'.state.answers) = Len(proto.state.answers) + 1
                 /\ SubSeq(proto'.state.answers, 1, Len(proto.state.answers))
                      = proto.state.answers
                 /\ proto'.state.answers[Len(proto'.state.answers)].question_id
                      = proto_questions[proto.state.question_idx + 1].id
         ]_vars
    /\ [](\A sid \in Live : Len(state[sid].answers) = Evaluated(sid))

\* C32: in the judge-based machine the follow-up queue holds at most one
\* element in every reachable state, in the running state and in the state
\* the session stores, and it is empty whenever the evaluate node is about to
\* run: the follow-up of one evaluation is dequeued by the ask node before
\* the next evaluation.
C32_AtMostOneFollowUpQueued ==
    \A sid \in Live :
        /\ Len(state[sid].pending_followups) <= 1
        /\ Len(SESSIONS[sid].state.pending_followups) <= 1
        /\ task[sid].pc \in {"evaluate", "wait", "console"}
           => state[sid].pending_followups = <<>>

\* The second follow-up to the first question is queued, alone: the first was
\* dequeued and asked before the evaluation that queued the second.
C32_Witness ==
    \E sid \in Live :
        /\ task[sid].pc = "ask"
        /\ Len(state[sid].pending_followups) = 1
        /\ Trackers(sid)[1].follow_up_count = 2
        /\ turns[sid].asked[1] = 2

\* The step is the first slice of a send_answer call of c for session sid.
Sends(c, sid) == \E text \in AnswerTexts : send_answer(c, sid, text)

\* The future of session sid has been resolved and the task has not taken
\* the answer yet.
Resolved(sid) ==
    /\ SESSIONS[sid].current_future # None
    /\ SESSIONS[sid].current_future[1].done

\* C33: of two send_answer calls that meet the same future of a session, the
\* first resolves it and the second, finding it resolved, leaves the future
\* with the first answer, delivers nothing, changes neither the running nor
\* the stored state and returns no error; the task takes the answer of the
\* future, so that only answers given to a future are recorded (where the
\* ask node waits on a future at all); and no prompt is returned to both
\* calls.
C33_SecondAnswerDropped ==
    /\ [][\A c \in Callers : \A sid \in Live :
             /\ (Sends(c, sid) /\ Resolved(sid))
                => /\ SESSIONS'[sid].current_future = SESSIONS[sid].current_future
                   /\ SESSIONS'[sid].state = SESSIONS[sid].state
                   /\ state'[sid] = state[sid]
                   /\ turns'[sid].delivered = turns[sid].delivered
                   /\ call'[c].k = 0
                   /\ call'[c].result # None => call'[c].result[1].kind # "error"
             /\ (Sends(c, sid) /\ awaited(SESSIONS[sid]))
                => /\ Resolved(sid)'
                   /\ turns'[sid].delivered = turns[sid].delivered + 1
                   /\ call'[c].k = turns'[sid].delivered
             /\ (task[sid].pc = "wait" /\ task'[sid].pc # "wait")
                => state'[sid].latest_answer = SESSIONS[sid].current_future[1].result
          ]_vars
    /\ [](\A sid \in Live :
             ask_mode = "wait" => Len(state[sid].answers) <= turns[sid].delivered)
    /\ [](\A c \in Callers : \A d \in Callers \ {c} :
             (call[c].got # 0 /\ call[d].got # 0 /\ call[c].sid = call[d].sid)
             => call[c].got # call[d].got)

\* Both calls met the first future: c1 resolved it, c2 found it resolved; the
\* one answer was evaluated and recorded, c2 got the second prompt and c1
\* was told to wait.
C33_Witness ==
    /\ "s1" \in Live
    /\ turns["s1"].delivered = 1
    /\ Len(state["s1"].answers) = 1
    /\ call["c1"].op = "send" /\ call["c1"].k = 1
    /\ call["c1"].pc = "idle" /\ call["c1"].result = Some(waiting_result)
    /\ call["c2"].op = "send" /\ call["c2"].k = 0
    /\ call["c2"].pc = "idle" /\ call["c2"].got = 2

\* The run of session sid has raised.
RunFailed(sid) == SESSIONS[sid].last_error # None

\* C34: when the run of a session raises, the session is done, holds the
\* error and has no unresolved future, its task has ended, and the error
\* stays; from then on every send_answer call for the session returns at once
\* the error with done set and changes nothing of the session: not its
\* stored state, its future or its prompt queue, nor the state of the run.
C34_FailedSessionRejectsAnswers ==
    /\ [](\A sid \in Live :
             RunFailed(sid)
             => /\ SESSIONS[sid].done
                /\ ~awaited(SESSIONS[sid])
                /\ task[sid].pc = "ended")
    /\ [][\A sid \in Live :
             /\ (task[sid].pc # "ended" /\ task'[sid].pc = "ended"
                   /\ task[sid].pc # "report")
                => RunFailed(sid)'
             /\ RunFailed(sid) => SESSIONS'[sid].last_error = SESSIONS[sid].last_error
             /\ \A c \in Callers :
                   (RunFailed(sid) /\ Sends(c, sid))
                   => /\ call'[c].pc = "idle"
                      /\ call'[c].result = Some(error_result(SESSIONS[sid].last_error[1]))
                      /\ call'[c].result[1].done
                      /\ SESSIONS'[sid] = SESSIONS[sid]
                      /\ state'[sid] = state[sid]
          ]_vars

\* The step returns a prompt of session sid to the UI call c.
ReturnsPrompt(c, sid) ==
    /\ call'[c] # call[c]
    /\ call'[c].sid = Some(sid)
    /\ call'[c].result # None
    /\ call'[c].result[1].kind = "prompt"

\* C35: the pending_prompts list of a session holds at most one prompt in
\* every reachable state; it changes only when the ask node pushes a prompt
\* or when one UI call pops its head; and a call that returns a prompt has
\* popped it: the prompt returned is the head, which is removed, so no prompt
\* is handed to the UI twice.
C35_PromptHandedOnce ==
    /\ [](\A sid \in Live : Len(SESSIONS[sid].pending_prompts) <= 1)
    /\ [][\A sid \in Live :
             LET before == SESSIONS[sid].pending_prompts
                 after == SESSIONS'[sid].pending_prompts IN
             /\ after # before
                => \/ /\ task[sid].pc = "ask" /\ task'[sid].pc = "wait"
                      /\ after = Append(before, task'[sid].prompt[1])
                      /\ call' = call
                   \/ /\ before # <<>>
                      /\ after = Tail(before)
                      /\ Cardinality({c \in Callers : ReturnsPrompt(c, sid)}) = 1
             /\ \A c \in Callers :
                   ReturnsPrompt(c, sid)
                   => /\ before # <<>>
                      /\ call'[c].result = Some(prompt_result(Head(before)))
                      /\ after = Tail(before)
                      /\ call'[c].got = turns[sid].emitted - Len(before) + 1
          ]_vars

\* The second prompt has been pushed, and a send_answer call has popped and
\* returned it: the list is empty again.
C35_Witness ==
    \E sid \in Live : \E c \in Callers :
        /\ turns[sid].emitted = 2
        /\ SESSIONS[sid].pending_prompts = <<>>
        /\ call[c].op = "send"
        /\ call[c].sid = Some(sid)
        /\ call[c].got = 2
        /\ call[c].result # None
        /\ call[c].result[1].kind = "prompt"

====
